---- MODULE Spec2Model ----
(***************************************************************************)
(* A model of the ExcelAI backend core:                                    *)
(*   - the quota ledger      (app/services/usage_limiter.py)               *)
(*   - the transform router  (app/routers/transform.py)                    *)
(*   - the plan oracle       (app/services/llm_planner.py)                 *)
(*   - the plan interpreter  (app/services/transformer.py)                 *)
(* Request handlers run on worker threads; each thread's position in the   *)
(* handler it runs is th[t].pc.                                            *)
(***************************************************************************)
EXTENDS Integers, Sequences, FiniteSets, TLC

\* ------------------------------------------------------------------ bounds
NumThreads == 2      \* worker threads serving requests concurrently
MaxCalls == 3        \* consume calls started over one behaviour
MaxLimit == 2        \* largest configured max_uses explored

Threads == 1..NumThreads
NoThread == 0

Min(a, b) == IF a <= b THEN a ELSE b
Max(a, b) == IF a >= b THEN a ELSE b

\* ------------------------------------------------------- user identifiers
\* A user identifier is a sequence of characters.
Whitespace == {" ", "\t"}

LowerChar(c) ==
  CASE c = "U" -> "u"
    [] c = "V" -> "v"
    [] OTHER -> c

Lower(s) == [i \in 1..Len(s) |-> LowerChar(s[i])]

RECURSIVE LStrip(_)
LStrip(s) ==
  IF s # <<>> /\ Head(s) \in Whitespace THEN LStrip(Tail(s)) ELSE s

RECURSIVE RStrip(_)
RStrip(s) ==
  IF s # <<>> /\ s[Len(s)] \in Whitespace
    THEN RStrip(SubSeq(s, 1, Len(s) - 1))
    ELSE s

Strip(s) == RStrip(LStrip(s))

\* A plausible slip: the identifier is trimmed but its case is kept.
CleanUserIdNoLower(user_id) == Strip(user_id)

\* user_id.strip().lower()
CleanUserId(user_id) == Lower(Strip(user_id))

\* The identifiers callers send: two spellings of one user and another user.
RawUserIds ==
  { <<"u", "1">>, <<" ", "U", "1", "\t">>, <<"v", "2">> }

\* Two identifiers name the same user when they differ only in letter case or
\* in surrounding whitespace.
SameUser(u1, u2) == Lower(Strip(u1)) = Lower(Strip(u2))

\* The spellings of each identifier, tabulated once
SpellingsOf == [ u \in RawUserIds |-> { r \in RawUserIds : SameUser(r, u) } ]

Spellings(u) == SpellingsOf[u]

\* ---------------------------------------------------------------- state
VARIABLES
  max_uses,    \* UsageLimiter.max_uses, fixed at construction
  usage,       \* the committed rows of table usage: user_id -> row
  clock,       \* logical time read by _utcnow_iso
  lock,        \* the thread holding UsageLimiter._lock, or NoThread
  dbWriter,    \* the thread holding the database write lock, or NoThread
  th,          \* per thread: position in consume, its argument and locals
  calls,       \* consume calls started so far
  lastRead,    \* the last read operation that returned, with its result
  lastConsume, \* the last consume call that returned, with its result
  consumeCalls,\* history: consume calls started, per identifier as sent
  consumeDone, \* history: consume calls returned, per identifier as sent
  incs,        \* history: increments committed, per identifier as sent
  source_df,   \* the DataFrame handed to apply_plan
  payload_plan,\* the plan handed to apply_plan
  apply_result,\* what apply_plan returned or raised, once it has been called
  stable_sort, \* whether the build's argsort(kind="quicksort") keeps ties in order
  object_round,\* what the build's Series.round does with an object column
  llm_settings,\* the Settings fields build_services hands to LLMPlanner
  planner,     \* the LLMPlanner: _provider, _api_key and the key of _client
  client_present, \* LLMPlanner._client is not None
  uuid_count,  \* tokens uuid4 has produced
  oracle_call, \* the last call of the oracle: its arguments and what the service did
  oracle_result, \* what that call returned
  inflight,    \* per thread: the POST /transform request it is serving, if any
  requests,    \* POST /transform requests received so far
  accepted,    \* history: requests answered 200, per identifier as sent
  lastResponse,\* the last response of an endpoint, with the event logged for it
  log_attempts \* calls of AnalyticsLogger.log_transform_event so far

quotaVars ==
  << max_uses, usage, clock, lock, dbWriter, th, calls, lastRead, lastConsume,
     consumeCalls, consumeDone, incs >>

interpVars == << source_df, payload_plan, apply_result, stable_sort, object_round >>

oracleVars == << llm_settings, planner, client_present, uuid_count, oracle_call, oracle_result >>

routerVars == << inflight, requests, accepted, lastResponse, log_attempts >>

vars == << quotaVars, interpVars, oracleVars, routerVars >>

IdleThread ==
  [ pc |-> "idle", user |-> <<>>, clean |-> <<>>,
    row |-> FALSE, usage_count |-> 0, new_usage |-> 0 ]

NoRead == [ op |-> "none", user |-> <<>>, ret |-> 0, seen |-> 0 ]

NoConsume ==
  [ user |-> <<>>, ret |-> <<>>, k |-> 0 ]

NoRequest ==
  [ pc |-> "none", user |-> <<>>, plan |-> 0, file |-> "", ret |-> <<>> ]

\* ------------------------------------------------------------ the table
HasRow(table, clean) == clean \in DOMAIN table

\* SELECT usage_count FROM usage WHERE user_id = ?  ... int(row[0]) if row else 0
StoredCount(table, clean) ==
  IF HasRow(table, clean) THEN table[clean].usage_count ELSE 0

\* A plausible slip: the UPDATE has no WHERE clause.
UpdateRowAll(table, clean, n, ts) ==
  [c \in DOMAIN table |-> [usage_count |-> n, updated_at |-> ts]]

\* UPDATE usage SET usage_count = ?, updated_at = ? WHERE user_id = ?
UpdateRow(table, clean, n, ts) ==
  IF HasRow(table, clean)
    THEN [table EXCEPT ![clean] = [usage_count |-> n, updated_at |-> ts]]
    ELSE table

\* INSERT INTO usage (user_id, usage_count, updated_at) VALUES (?, ?, ?)
InsertRow(table, clean, n, ts) ==
  (clean :> [usage_count |-> n, updated_at |-> ts]) @@ table

\* A plausible slip: the limit test lets one more call through.
LimitReachedOffByOne(usage_count, limit) == usage_count > limit

\* if usage_count >= self.max_uses
LimitReached(usage_count, limit) == usage_count >= limit

\* A plausible slip: the increment is applied twice.
NewUsageTwice(usage_count) == usage_count + 2

\* new_usage = usage_count + 1
NewUsage(usage_count) == usage_count + 1

\* A plausible slip: the operands of the subtraction are swapped.
RemainingSwapped(limit, count) == Max(0, count - limit)

\* max(0, self.max_uses - count)
Remaining(limit, count) == Max(0, limit - count)

\* history, summed over every spelling of user u
RECURSIVE Sum(_, _)
Sum(f, S) ==
  IF S = {} THEN 0
  ELSE LET r == CHOOSE x \in S : TRUE IN f[r] + Sum(f, S \ {r})

CallsOf(u) == Sum(consumeCalls, Spellings(u))
DoneOf(u) == Sum(consumeDone, Spellings(u))
IncsOf(u) == Sum(incs, Spellings(u))

\* What the quota ledger's operations leave alone.
QuotaFrame == UNCHANGED << interpVars, oracleVars, routerVars >>

\* consume returns r to its caller: to the request thread t is serving, if any
ReturnTo(t, r) ==
  /\ inflight' = IF inflight[t].pc = "consume"
                   THEN [inflight EXCEPT ![t].pc = "returned", ![t].ret = r]
                   ELSE inflight
  /\ UNCHANGED << interpVars, oracleVars, requests, accepted, lastResponse, log_attempts >>

\* ------------------------------------------------------- read operations
\* What a read operation on identifier u leaves behind: its result, and (history)
\* the increments committed so far for that user under any spelling.
ReadResult(o, u, r) ==
  [ op |-> o, user |-> u, ret |-> r, seen |-> IncsOf(u) ]

\* UsageLimiter.get_usage
get_usage(u) == StoredCount(usage, CleanUserId(u))

\* UsageLimiter.get_remaining
get_remaining(u) == Remaining(max_uses, get_usage(u))

\* UsageLimiter.can_consume
can_consume(u) == get_usage(u) < max_uses

GetUsage(u) ==
  /\ lastRead' = ReadResult("get_usage", u, get_usage(u))
  /\ UNCHANGED << max_uses, usage, clock, lock, dbWriter, th, calls, lastConsume,
                  consumeCalls, consumeDone, incs >>
  /\ QuotaFrame

GetRemaining(u) ==
  /\ lastRead' = ReadResult("get_remaining", u, get_remaining(u))
  /\ UNCHANGED << max_uses, usage, clock, lock, dbWriter, th, calls, lastConsume,
                  consumeCalls, consumeDone, incs >>
  /\ QuotaFrame

CanConsume(u) ==
  /\ lastRead' = ReadResult("can_consume", u, can_consume(u))
  /\ UNCHANGED << max_uses, usage, clock, lock, dbWriter, th, calls, lastConsume,
                  consumeCalls, consumeDone, incs >>
  /\ QuotaFrame

\* ---------------------------------------------------------------- consume
\* UsageLimiter.consume is entered: clean = self._clean_user_id(user_id)
EnterConsume(t, u) ==
  /\ LET clean == CleanUserId(u) IN
       /\ th' = [th EXCEPT ![t] =
                   [IdleThread EXCEPT !.pc = "lock", !.user = u, !.clean = clean]]
       /\ consumeCalls' = [consumeCalls EXCEPT ![u] = @ + 1]
  /\ calls' = calls + 1
  /\ UNCHANGED << max_uses, usage, clock, lock, dbWriter, lastRead, lastConsume,
                  consumeDone, incs >>

\* a consume call made directly on the limiter
ConsumeCall(t, u) ==
  /\ th[t].pc = "idle"
  /\ calls < MaxCalls
  /\ EnterConsume(t, u)
  /\ QuotaFrame

\* with self._lock:
AcquireLock(t) ==
  /\ th[t].pc = "lock"
  /\ lock = NoThread
  /\ lock' = t
  /\ th' = [th EXCEPT ![t].pc = "begin"]
  /\ UNCHANGED << max_uses, usage, clock, dbWriter, calls, lastRead, lastConsume,
                  consumeCalls, consumeDone, incs >>
  /\ QuotaFrame

\* connection.execute("BEGIN IMMEDIATE"): waits for the database write lock
BeginImmediate(t) ==
  /\ th[t].pc = "begin"
  /\ dbWriter = NoThread
  /\ dbWriter' = t
  /\ th' = [th EXCEPT ![t].pc = "select"]
  /\ UNCHANGED << max_uses, usage, clock, lock, calls, lastRead, lastConsume,
                  consumeCalls, consumeDone, incs >>
  /\ QuotaFrame

\* row = SELECT ...fetchone(); usage_count = int(row[0]) if row else 0
SelectRow(t) ==
  /\ th[t].pc = "select"
  /\ th' = [th EXCEPT ![t].pc = "check",
                      ![t].row = HasRow(usage, th[t].clean),
                      ![t].usage_count = StoredCount(usage, th[t].clean)]
  /\ UNCHANGED << max_uses, usage, clock, lock, dbWriter, calls, lastRead,
                  lastConsume, consumeCalls, consumeDone, incs >>
  /\ QuotaFrame

\* What a consume call leaves behind when it returns r: its result and (history)
\* its place k in the order in which the calls for that user returned.
ConsumeResult(t, r) ==
  [ user |-> th[t].user, ret |-> r, k |-> DoneOf(th[t].user) + 1 ]

\* usage_count >= max_uses: connection.rollback(); return usage_count, 0
ReturnAtLimit(t) ==
  /\ th[t].pc = "check"
  /\ LimitReached(th[t].usage_count, max_uses)
  /\ lastConsume' = ConsumeResult(t, <<th[t].usage_count, 0>>)
  /\ th' = [th EXCEPT ![t] = IdleThread]
  /\ consumeDone' = [consumeDone EXCEPT ![th[t].user] = @ + 1]
  /\ lock' = NoThread
  /\ dbWriter' = NoThread
  /\ UNCHANGED << max_uses, usage, clock, calls, lastRead, consumeCalls, incs >>
  /\ ReturnTo(t, <<th[t].usage_count, 0>>)

\* new_usage = usage_count + 1; the UPDATE or INSERT runs inside the transaction
WriteRow(t) ==
  /\ th[t].pc = "check"
  /\ ~LimitReached(th[t].usage_count, max_uses)
  /\ th' = [th EXCEPT ![t].pc = "commit",
                      ![t].new_usage = NewUsage(th[t].usage_count)]
  /\ UNCHANGED << max_uses, usage, clock, lock, dbWriter, calls, lastRead,
                  lastConsume, consumeCalls, consumeDone, incs >>
  /\ QuotaFrame

\* connection.commit(); return new_usage, max(0, max_uses - new_usage)
Commit(t) ==
  /\ th[t].pc = "commit"
  /\ usage' = IF th[t].row
                THEN UpdateRow(usage, th[t].clean, th[t].new_usage, clock + 1)
                ELSE InsertRow(usage, th[t].clean, th[t].new_usage, clock + 1)
  /\ lastConsume' =
       ConsumeResult(t, <<th[t].new_usage, Remaining(max_uses, th[t].new_usage)>>)
  /\ clock' = clock + 1
  /\ th' = [th EXCEPT ![t] = IdleThread]
  /\ consumeDone' = [consumeDone EXCEPT ![th[t].user] = @ + 1]
  /\ incs' = [incs EXCEPT ![th[t].user] = @ + 1]
  /\ lock' = NoThread
  /\ dbWriter' = NoThread
  /\ UNCHANGED << max_uses, calls, lastRead, consumeCalls >>
  /\ ReturnTo(t, <<th[t].new_usage, Remaining(max_uses, th[t].new_usage)>>)

\* ------------------------------------------------------- store failures
\* A transaction that wrote the row and made it visible before the commit
RollbackKeepsWrite(table, clean, row, new_usage, now) ==
  IF new_usage = 0 THEN table
  ELSE IF row THEN UpdateRow(table, clean, new_usage, now)
              ELSE InsertRow(table, clean, new_usage, now)

\* with sqlite3.connect(...) as connection: an exception inside the block makes
\* the connection roll back, so the committed rows stay as they were whatever
\* the transaction had written
Rollback(table, clean, row, new_usage, now) == table

\* The positions of consume where the store can fail: BEGIN IMMEDIATE, the
\* SELECT, the UPDATE or INSERT, and the commit
FailurePoints == {"begin", "select", "check", "commit"}

\* The store fails under thread t: sqlite3 raises, the connection rolls back
\* and both with blocks are left, which releases the lock
StoreFails(t) ==
  /\ th[t].pc \in FailurePoints
  /\ usage' = Rollback(usage, th[t].clean, th[t].row, th[t].new_usage, clock + 1)
  /\ th' = [th EXCEPT ![t].pc = "raised"]
  /\ lock' = NoThread
  /\ dbWriter' = IF dbWriter = t THEN NoThread ELSE dbWriter
  /\ UNCHANGED << max_uses, clock, calls, lastRead, lastConsume, consumeCalls,
                  consumeDone, incs >>
  /\ QuotaFrame

\* The exception leaves consume: the call is over and has returned nothing
Propagate(t) ==
  /\ th[t].pc = "raised"
  /\ th' = [th EXCEPT ![t] = IdleThread]
  /\ UNCHANGED << max_uses, usage, clock, lock, dbWriter, calls, lastRead,
                  lastConsume, consumeCalls, consumeDone, incs >>
  /\ QuotaFrame

\* ------------------------------------------------------------ JSON values
\* A JSON value as the handlers receive it: its Python type and its content.
\* A Python str is held whole when only its identity matters (a name, a tag)
\* and as its characters when the code looks inside it (strip, case).
JNone == [kind |-> "none", v |-> 0]
JStr(x) == [kind |-> "str", v |-> x]
JText(chars) == [kind |-> "text", v |-> chars]
JNum(n) == [kind |-> "num", v |-> n]
JBool(b) == [kind |-> "bool", v |-> b]
JList(items) == [kind |-> "list", v |-> items]
JDict(f) == [kind |-> "dict", v |-> f]

\* Equality of two JSON values of the types compared here (None, str, number)
JEq(a, b) == a.kind = b.kind /\ a.v = b.v

\* isinstance(j, str)
IsStr(j) == j.kind \in {"str", "text"}

\* dict.get(key): None when the key is absent
Get(d, key) == IF key \in DOMAIN d.v THEN d.v[key] ELSE JNone

\* Python truth value, as tested by "not x" and "x or y"
Truthy(j) ==
  CASE j.kind = "none" -> FALSE
    [] j.kind = "str" -> j.v # ""
    [] j.kind = "text" -> j.v # <<>>
    [] j.kind = "num" -> j.v # 0
    [] j.kind = "bool" -> j.v
    [] j.kind = "list" -> j.v # <<>>
    [] j.kind = "dict" -> DOMAIN j.v # {}

\* Lists and dicts are unhashable: testing them for membership in a set raises.
Hashable(j) == j.kind \notin {"list", "dict"}

\* ------------------------------------------------------- plan interpreter
SUPPORTED_OPERATIONS ==
  { "rename_column", "drop_columns", "fill_null", "cast_type", "trim_whitespace",
    "change_case", "derive_numeric", "filter_rows", "sort_rows" }

\* A DataFrame: column labels in order (labels may repeat) and rows of cells.
DataFrame(cols, rows) == [columns |-> cols, rows |-> rows]

\* The outcome of a call: a returned value, or the exception it ends in.
Returns(x) == [status |-> "ok", value |-> <<x>>, msg |-> ""]
Raises(exc, m) == [status |-> exc, value |-> <<>>, msg |-> m]

RECURSIVE ValidateOperations(_, _)
\* for operation in operations: ... (the first offending element raises)
ValidateOperations(items, i) ==
  IF i > Len(items) THEN Returns(items)
  ELSE LET operation == items[i]
           op_type == Get(operation, "type")
       IN IF operation.kind # "dict"
            THEN Raises("TransformationError", "Each operation must be an object.")
          ELSE IF ~Hashable(op_type)
            THEN Raises("TypeError", "unhashable type")
          ELSE IF ~(op_type.kind = "str" /\ op_type.v \in SUPPORTED_OPERATIONS)
            THEN Raises("TransformationError", "Unsupported operation type")
          ELSE ValidateOperations(items, i + 1)

\* _validate_plan
ValidatePlan(plan) ==
  LET operations == Get(plan, "operations")
  IN IF operations.kind # "list"
       THEN Raises("TransformationError", "Plan must contain an 'operations' list.")
       ELSE ValidateOperations(operations.v, 1)

\* column not in df.columns
InColumns(df, label) == \E i \in 1..Len(df.columns) : JEq(df.columns[i], label)

\* _require_columns: the missing labels are joined into the message, which
\* raises TypeError when one of them is not a string.
RequireColumns(df, labels) ==
  LET missing == { i \in 1..Len(labels) : ~InColumns(df, labels[i]) }
  IN IF missing = {} THEN Returns(df)
     ELSE IF \E i \in missing : ~IsStr(labels[i])
       THEN Raises("TypeError", "sequence item: expected str instance")
     ELSE Raises("TransformationError", "Missing columns")

\* Positions of the columns kept by DataFrame.drop(columns=labels)
KeptPositions(df, labels) ==
  { i \in 1..Len(df.columns) :
      \A j \in 1..Len(labels) : ~JEq(labels[j], df.columns[i]) }

RECURSIVE SelectPositions(_, _, _)
\* The elements of sequence s at the positions in P, in order.
SelectPositions(s, P, i) ==
  IF i > Len(s) THEN <<>>
  ELSE (IF i \in P THEN <<s[i]>> ELSE <<>>) \o SelectPositions(s, P, i + 1)

\* A rename that also moves the renamed column behind the others
RenameColumnMoved(df, operation) ==
  LET source == Get(operation, "from")
      target == Get(operation, "to")
      others == { i \in 1..Len(df.columns) : ~JEq(df.columns[i], source) }
  IN IF ~Truthy(source) \/ ~Truthy(target)
       THEN Raises("TransformationError", "rename_column requires 'from' and 'to'.")
     ELSE IF ~Hashable(source)
       THEN Raises("TypeError", "unhashable type")
     ELSE LET req == RequireColumns(df, <<source>>)
          IN IF req.status # "ok" THEN req
             ELSE IF ~Hashable(target)
               THEN Raises("TypeError", "unhashable type")
             ELSE Returns(DataFrame(
                    SelectPositions(df.columns, others, 1)
                      \o [i \in 1..(Len(df.columns) - Cardinality(others)) |-> target],
                    [r \in 1..Len(df.rows) |->
                       SelectPositions(df.rows[r], others, 1)
                         \o SelectPositions(df.rows[r],
                                            (1..Len(df.columns)) \ others, 1)]))

\* op_type == "rename_column"
RenameColumn(df, operation) ==
  LET source == Get(operation, "from")
      target == Get(operation, "to")
  IN IF ~Truthy(source) \/ ~Truthy(target)
       THEN Raises("TransformationError", "rename_column requires 'from' and 'to'.")
     ELSE IF ~Hashable(source)
       THEN Raises("TypeError", "unhashable type")
     ELSE LET req == RequireColumns(df, <<source>>)
          IN IF req.status # "ok" THEN req
             ELSE IF ~Hashable(target)
               THEN Raises("TypeError", "unhashable type")
             ELSE Returns(DataFrame(
                    [i \in 1..Len(df.columns) |->
                       IF JEq(df.columns[i], source) THEN target ELSE df.columns[i]],
                    df.rows))

\* op_type == "drop_columns"
DropColumns(df, operation) ==
  LET columns == IF "columns" \in DOMAIN operation.v
                   THEN operation.v["columns"] ELSE JList(<<>>)
  IN IF columns.kind # "list" \/ columns.v = <<>>
       THEN Raises("TransformationError", "drop_columns requires non-empty 'columns'.")
     ELSE IF \E j \in 1..Len(columns.v) : ~Hashable(columns.v[j])
       THEN Raises("TypeError", "unhashable type")
     ELSE LET req == RequireColumns(df, columns.v)
          IN IF req.status # "ok" THEN req
             ELSE LET keep == KeptPositions(df, columns.v)
                  IN Returns(DataFrame(
                       SelectPositions(df.columns, keep, 1),
                       [r \in 1..Len(df.rows) |->
                          SelectPositions(df.rows[r], keep, 1)]))

\* ------------------------------------------------- plan interpreter: cells
\* The characters cell texts are written in, in code point order.
Alphabet ==
  << "\t", " ", "0", "1", "2", "3", "4", "5", "6", "7", "8", "9",
     "A", "B", "E", "F", "I", "K", "L", "M", "N", "O", "P", "R", "S", "T", "U", "Y",
     "a", "b", "e", "f", "i", "k", "l", "m", "n", "o", "p", "r", "s", "t", "u", "y" >>

UpperLetters ==
  << "A", "B", "E", "F", "I", "K", "L", "M", "N", "O", "P", "R", "S", "T", "U", "Y" >>
LowerLetters ==
  << "a", "b", "e", "f", "i", "k", "l", "m", "n", "o", "p", "r", "s", "t", "u", "y" >>
DigitChars == << "0", "1", "2", "3", "4", "5", "6", "7", "8", "9" >>

\* The position of x in sequence s, 0 when absent
IndexIn(s, x) ==
  IF \E i \in 1..Len(s) : s[i] = x THEN CHOOSE i \in 1..Len(s) : s[i] = x ELSE 0

IsLetter(c) == IndexIn(UpperLetters, c) > 0 \/ IndexIn(LowerLetters, c) > 0

ToLower(c) == IF IndexIn(UpperLetters, c) > 0 THEN LowerLetters[IndexIn(UpperLetters, c)] ELSE c
ToUpper(c) == IF IndexIn(LowerLetters, c) > 0 THEN UpperLetters[IndexIn(LowerLetters, c)] ELSE c

\* str.lower, str.upper
LowerText(t) == [i \in 1..Len(t) |-> ToLower(t[i])]
UpperText(t) == [i \in 1..Len(t) |-> ToUpper(t[i])]

\* str.title: a letter is upper case when it starts a run of letters
TitleText(t) ==
  [i \in 1..Len(t) |->
     IF i = 1 \/ ~IsLetter(t[i - 1]) THEN ToUpper(t[i]) ELSE ToLower(t[i])]

\* A text made of decimal digits only
IsDigits(t) == t # <<>> /\ \A i \in 1..Len(t) : IndexIn(DigitChars, t[i]) > 0

RECURSIVE DigitsValue(_)
DigitsValue(t) ==
  IF t = <<>> THEN 0
  ELSE 10 * DigitsValue(SubSeq(t, 1, Len(t) - 1)) + (IndexIn(DigitChars, t[Len(t)]) - 1)

RECURSIVE NumberDigits(_)
\* str(n) for n >= 0
NumberDigits(n) ==
  IF n < 10 THEN <<DigitChars[n + 1]>>
  ELSE NumberDigits(n \div 10) \o <<DigitChars[(n % 10) + 1]>>

\* pd.isna(value)
IsNull(cell) == cell.kind = "none"

\* a cell that is a number to Python: int or bool
IsNumeric(cell) == cell.kind \in {"num", "bool"}

\* the number a numeric cell stands for (True is 1)
NumberOf(cell) == IF cell.kind = "bool" THEN (IF cell.v THEN 1 ELSE 0) ELSE cell.v

\* pd.to_numeric(series, errors="coerce"), cell by cell: numbers stay, texts of
\* digits are parsed, every other value becomes null
ToNumeric(cell) ==
  CASE cell.kind = "num" -> cell
    [] cell.kind = "bool" -> JNum(NumberOf(cell))
    [] cell.kind = "text" /\ IsDigits(cell.v) -> JNum(DigitsValue(cell.v))
    [] OTHER -> JNone

\* a == b between a cell and a scalar, as Python decides it; null equals nothing
CellEq(a, b) ==
  CASE IsNull(a) \/ IsNull(b) -> FALSE
    [] IsNumeric(a) /\ IsNumeric(b) -> NumberOf(a) = NumberOf(b)
    [] a.kind = "text" /\ b.kind = "text" -> a.v = b.v
    [] OTHER -> FALSE

RECURSIVE TextLess(_, _)
\* a < b between two strings
TextLess(a, b) ==
  IF b = <<>> THEN FALSE
  ELSE IF a = <<>> THEN TRUE
  ELSE IF a[1] = b[1] THEN TextLess(Tail(a), Tail(b))
  ELSE IndexIn(Alphabet, a[1]) < IndexIn(Alphabet, b[1])

\* a < b between two non-null cells of one kind of value
CellLess(a, b) ==
  IF IsNumeric(a) /\ IsNumeric(b) THEN NumberOf(a) < NumberOf(b)
  ELSE TextLess(a.v, b.v)

\* ----------------------------------------------- plan interpreter: columns
\* Positions of the columns that carry this label
PositionsOf(df, label) == { i \in 1..Len(df.columns) : JEq(df.columns[i], label) }

\* transformed[column] is a Series when the label occurs once; when it occurs
\* twice it is a DataFrame, and what the branch does with it depends on the
\* pandas release: such a call ends in the outcome NotModelled.
IsSeries(df, label) == Cardinality(PositionsOf(df, label)) = 1

AllSeries(df, labels) == \A j \in 1..Len(labels) : IsSeries(df, labels[j])

NotModelled(m) == Raises("NotModelled", m)

\* `column not in df.columns` hashes the label, then _require_columns
RequireHashable(df, labels) ==
  IF \E j \in 1..Len(labels) : ~Hashable(labels[j])
    THEN Raises("TypeError", "unhashable type")
    ELSE RequireColumns(df, labels)

\* The frame with the cells of column c replaced by cells[r], row by row
WithColumn(df, c, cells) ==
  DataFrame(df.columns,
            [r \in 1..Len(df.rows) |-> [df.rows[r] EXCEPT ![c] = cells[r]]])

\* The position of the only column with this label
PositionOf(df, label) == CHOOSE i \in PositionsOf(df, label) : TRUE

\* series = transformed[column], as the sequence of its cells
Series(df, label) == [r \in 1..Len(df.rows) |-> df.rows[r][PositionOf(df, label)]]

\* series.fillna(value) for a scalar value
FillNa(series, value) ==
  [r \in 1..Len(series) |-> IF IsNull(series[r]) THEN value ELSE series[r]]

\* op_type == "fill_null"
FillNull(df, operation) ==
  LET column == Get(operation, "column")
      value == Get(operation, "value")
  IN IF ~IsStr(column)
       THEN Raises("TransformationError", "fill_null requires 'column'.")
     ELSE LET req == RequireColumns(df, <<column>>)
          IN IF req.status # "ok" THEN req
             ELSE IF ~IsSeries(df, column)
               THEN NotModelled("fillna on a duplicated label")
             ELSE IF value.kind = "none"
               THEN Raises("ValueError", "Must specify a fill 'value' or 'method'.")
             ELSE IF value.kind = "list"
               THEN Raises("TypeError", "'value' parameter must be a scalar or dict")
             ELSE IF value.kind = "dict"
               THEN NotModelled("fillna with a mapping")
             ELSE Returns(WithColumn(df, PositionOf(df, column),
                                     FillNa(Series(df, column), value)))

TruthyTokens ==
  { <<"t", "r", "u", "e">>, <<"1">>, <<"y", "e", "s">>, <<"y">>, <<"t">> }
FalsyTokens ==
  { <<"f", "a", "l", "s", "e">>, <<"0">>, <<"n", "o">>, <<"n">>, <<"f">> }

\* _to_bool
ToBool(cell) ==
  CASE IsNull(cell) -> JNone
    [] cell.kind = "bool" -> cell
    [] cell.kind = "num" -> JBool(cell.v # 0)
    [] cell.kind = "text" /\ LowerText(Strip(cell.v)) \in TruthyTokens -> JBool(TRUE)
    [] cell.kind = "text" /\ LowerText(Strip(cell.v)) \in FalsyTokens -> JBool(FALSE)
    [] OTHER -> JNone

\* str(value), for the values astype("string") meets
AsString(cell) ==
  CASE cell.kind = "num" /\ cell.v >= 0 -> JText(NumberDigits(cell.v))
    [] cell.kind = "num" /\ cell.v < 0 -> JText(<<"-">> \o NumberDigits(0 - cell.v))
    [] cell.kind = "bool" /\ cell.v -> JText(<<"T", "r", "u", "e">>)
    [] cell.kind = "bool" /\ ~cell.v -> JText(<<"F", "a", "l", "s", "e">>)
    [] OTHER -> cell

CAST_DTYPES == {"string", "int64", "float64", "datetime", "bool"}

\* _cast_series, cell by cell. Numbers are whole numbers here, so int64 and
\* float64 hold the same values.
CastCell(cell, dtype) ==
  CASE dtype = "string" -> AsString(cell)
    [] dtype \in {"int64", "float64"} -> ToNumeric(cell)
    [] dtype = "bool" -> ToBool(cell)
    [] OTHER -> cell

\* the dtype of the operation as a Python string
DtypeName(dtype) == IF dtype.kind = "str" THEN dtype.v ELSE "other"

\* op_type == "cast_type"
CastType(df, operation) ==
  LET column == Get(operation, "column")
      dtype == Get(operation, "dtype")
  IN IF ~IsStr(column) \/ ~IsStr(dtype)
       THEN Raises("TransformationError", "cast_type requires 'column' and 'dtype'.")
     ELSE LET req == RequireColumns(df, <<column>>)
          IN IF req.status # "ok" THEN req
             ELSE IF DtypeName(dtype) \notin CAST_DTYPES
               THEN Raises("TransformationError",
                           "dtype must be one of: string, int64, float64, datetime, bool")
             ELSE IF ~IsSeries(df, column)
               THEN NotModelled("cast of a duplicated label")
             ELSE IF DtypeName(dtype) = "datetime"
                     /\ \E r \in 1..Len(df.rows) : ~IsNull(Series(df, column)[r])
               THEN NotModelled("pd.to_datetime of a value")
             ELSE Returns(WithColumn(df, PositionOf(df, column),
                    [r \in 1..Len(df.rows) |->
                       CastCell(Series(df, column)[r], DtypeName(dtype))]))

\* value.strip() / value.upper() / value.lower() / value.title()
\*   if isinstance(value, str) else value
MapText(cell, how) ==
  IF cell.kind # "text" THEN cell
  ELSE CASE how = "strip" -> JText(Strip(cell.v))
         [] how = "upper" -> JText(UpperText(cell.v))
         [] how = "lower" -> JText(LowerText(cell.v))
         [] how = "title" -> JText(TitleText(cell.v))

\* for column in columns: transformed.loc[:, column] = transformed[column].map(...)
MapColumns(df, labels, how) ==
  DataFrame(df.columns,
            [r \in 1..Len(df.rows) |->
               [c \in 1..Len(df.columns) |->
                  IF \E j \in 1..Len(labels) : JEq(labels[j], df.columns[c])
                    THEN MapText(df.rows[r][c], how)
                    ELSE df.rows[r][c]]])

\* op_type == "trim_whitespace"
TrimWhitespace(df, operation) ==
  LET columns == IF "columns" \in DOMAIN operation.v
                   THEN operation.v["columns"] ELSE JList(<<>>)
  IN IF columns.kind # "list" \/ columns.v = <<>>
       THEN Raises("TransformationError", "trim_whitespace requires non-empty 'columns'.")
     ELSE LET req == RequireHashable(df, columns.v)
          IN IF req.status # "ok" THEN req
             ELSE IF ~AllSeries(df, columns.v)
               THEN NotModelled("map on a duplicated label")
             ELSE Returns(MapColumns(df, columns.v, "strip"))

\* op_type == "change_case"
ChangeCase(df, operation) ==
  LET columns == IF "columns" \in DOMAIN operation.v
                   THEN operation.v["columns"] ELSE JList(<<>>)
      case == Get(operation, "case")
  IN IF columns.kind # "list" \/ columns.v = <<>>
       THEN Raises("TransformationError", "change_case requires non-empty 'columns'.")
     ELSE IF ~Hashable(case)
       THEN Raises("TypeError", "unhashable type")
     ELSE IF ~(case.kind = "str" /\ case.v \in {"upper", "lower", "title"})
       THEN Raises("TransformationError", "change_case.case must be upper, lower, or title.")
     ELSE LET req == RequireHashable(df, columns.v)
          IN IF req.status # "ok" THEN req
             ELSE IF ~AllSeries(df, columns.v)
               THEN NotModelled("map on a duplicated label")
             ELSE Returns(MapColumns(df, columns.v, case.v))

RECURSIVE Gcd(_, _)
Gcd(a, b) == IF b = 0 THEN a ELSE Gcd(b, a % b)

Abs(n) == IF n < 0 THEN 0 - n ELSE n

\* left / right for right # 0: a whole number, or the fraction in lowest terms
Quotient(l, r) ==
  LET g == Gcd(Abs(l), Abs(r))
      sign == IF r < 0 THEN 0 - 1 ELSE 1
      num == sign * (l \div g)
      den == sign * (r \div g)
  IN IF den = 1 THEN JNum(num) ELSE [kind |-> "frac", v |-> <<num, den>>]

\* left_values <operator> right_values on one row; right_values.replace(0, pd.NA)
\* makes a zero denominator null before the division
Arith(operator, l, r) ==
  IF IsNull(l) \/ IsNull(r) THEN JNone
  ELSE CASE operator = "add" -> JNum(l.v + r.v)
         [] operator = "sub" -> JNum(l.v - r.v)
         [] operator = "mul" -> JNum(l.v * r.v)
         [] operator = "div" -> IF r.v = 0 THEN JNone ELSE Quotient(l.v, r.v)

\* output.round(round_digits) for round_digits >= 0: whole numbers and nulls
\* stay, a fraction is rounded to that many decimals
RoundCell(cell, digits) ==
  IF cell.kind = "frac" THEN [kind |-> "rounded", v |-> <<cell.v, digits>>] ELSE cell

\* right_values.replace(0, pd.NA) turns a column that holds a zero into an
\* object column where the release cannot keep pd.NA in a float column. What
\* Series.round does with the object quotient depends on the release: numpy's
\* round of an object array raises TypeError, a release that rounds numeric
\* blocks only returns the column as it is, and a release that kept the float
\* column rounds it.
ObjectRounds == {"raises", "skips", "rounds"}

\* transformed.loc[:, new_column] = output: the column is overwritten when the
\* label exists and appended otherwise
AssignColumn(df, label, cells) ==
  IF PositionsOf(df, label) # {}
    THEN WithColumn(df, PositionOf(df, label), cells)
    ELSE DataFrame(Append(df.columns, label),
                   [r \in 1..Len(df.rows) |-> Append(df.rows[r], cells[r])])

\* op_type == "derive_numeric"
DeriveNumeric(df, operation) ==
  LET left_column == Get(operation, "left_column")
      right_column == Get(operation, "right_column")
      new_column == Get(operation, "new_column")
      operator == Get(operation, "operator")
      round_digits == Get(operation, "round")
  IN IF ~(IsStr(left_column) /\ IsStr(right_column) /\ IsStr(new_column))
       THEN Raises("TransformationError",
                   "derive_numeric requires 'left_column', 'right_column', and 'new_column'.")
     ELSE IF ~Hashable(operator)
       THEN Raises("TypeError", "unhashable type")
     ELSE IF ~(operator.kind = "str" /\ operator.v \in {"add", "sub", "mul", "div"})
       THEN Raises("TransformationError",
                   "derive_numeric.operator must be add, sub, mul, or div.")
     ELSE LET req == RequireColumns(df, <<left_column, right_column>>)
          IN IF req.status # "ok" THEN req
             ELSE IF ~AllSeries(df, <<left_column, right_column>>)
                     \/ Cardinality(PositionsOf(df, new_column)) > 1
               THEN NotModelled("arithmetic on a duplicated label")
             ELSE LET left_values == [r \in 1..Len(df.rows) |->
                                        ToNumeric(Series(df, left_column)[r])]
                      right_values == [r \in 1..Len(df.rows) |->
                                         ToNumeric(Series(df, right_column)[r])]
                      output == [r \in 1..Len(df.rows) |->
                                   Arith(operator.v, left_values[r], right_values[r])]
                      zero_replaced == operator.v = "div"
                                         /\ \E r \in 1..Len(df.rows) :
                                              right_values[r] = JNum(0)
                  IN IF ~IsNumeric(round_digits)
                       THEN Returns(AssignColumn(df, new_column, output))
                     ELSE IF NumberOf(round_digits) < 0
                       THEN NotModelled("round to tens")
                     ELSE IF zero_replaced /\ object_round = "raises"
                       THEN Raises("TypeError",
                                   "loop of ufunc does not support argument 0 of type float")
                     ELSE IF zero_replaced /\ object_round = "skips"
                       THEN Returns(AssignColumn(df, new_column, output))
                     ELSE Returns(AssignColumn(df, new_column,
                            [r \in 1..Len(df.rows) |->
                               RoundCell(output[r], NumberOf(round_digits))]))

ORDERING_COMPARATORS == {"gt", "gte", "lt", "lte"}

\* Whether the row with this cell is kept: series <comparator> value
Keeps(cell, comparator, value) ==
  CASE comparator = "eq" -> CellEq(cell, value)
    [] comparator = "neq" -> ~CellEq(cell, value)
    [] OTHER ->
         LET n == ToNumeric(cell)
         IN IF IsNull(n) \/ IsNull(value) THEN FALSE
            ELSE CASE comparator = "gt" -> n.v > NumberOf(value)
                   [] comparator = "gte" -> n.v >= NumberOf(value)
                   [] comparator = "lt" -> n.v < NumberOf(value)
                   [] comparator = "lte" -> n.v <= NumberOf(value)

\* op_type == "filter_rows"
FilterRows(df, operation) ==
  LET column == Get(operation, "column")
      comparator == Get(operation, "comparator")
      value == Get(operation, "value")
  IN IF ~IsStr(column)
       THEN Raises("TransformationError", "filter_rows requires 'column' and comparator")
     ELSE IF ~Hashable(comparator)
       THEN Raises("TypeError", "unhashable type")
     ELSE IF ~(comparator.kind = "str"
               /\ comparator.v \in ({"eq", "neq"} \cup ORDERING_COMPARATORS))
       THEN Raises("TransformationError", "filter_rows requires 'column' and comparator")
     ELSE LET req == RequireColumns(df, <<column>>)
          IN IF req.status # "ok" THEN req
             ELSE IF ~IsSeries(df, column)
               THEN NotModelled("comparison on a duplicated label")
             ELSE IF value.kind \in {"list", "dict"}
               THEN NotModelled("comparison with a list or a mapping")
             ELSE IF comparator.v \in ORDERING_COMPARATORS /\ IsStr(value)
               THEN IF Len(df.rows) = 0
                      THEN NotModelled("ordering of an empty column against a string")
                      ELSE Raises("TypeError",
                                  "Invalid comparison between dtype=float64 and str")
             ELSE Returns(DataFrame(df.columns,
                    SelectPositions(df.rows,
                      { r \in 1..Len(df.rows) :
                          Keeps(Series(df, column)[r], comparator.v, value) }, 1)))

\* Two key cells that sort_values does not tell apart
KeyEq(a, b) == (IsNull(a) /\ IsNull(b)) \/ CellEq(a, b)

RECURSIVE RowBefore(_, _, _, _, _)
\* Row x sorts strictly before row y on the key positions keys[k..]: nulls
\* last in either direction, then the direction asked for
RowBefore(x, y, keys, k, ascending) ==
  IF k > Len(keys) THEN FALSE
  ELSE LET a == x[keys[k]]
           b == y[keys[k]]
       IN IF KeyEq(a, b) THEN RowBefore(x, y, keys, k + 1, ascending)
          ELSE IF IsNull(a) THEN FALSE
          ELSE IF IsNull(b) THEN TRUE
          ELSE IF ascending THEN CellLess(a, b) ELSE CellLess(b, a)

\* Rows x and y tie on every key, with no null among the keys
Ties(x, y, keys) ==
  \A k \in 1..Len(keys) : ~IsNull(x[keys[k]]) /\ CellEq(x[keys[k]], y[keys[k]])

\* Row x put into the sorted rows: behind its ties when the sort keeps ties in
\* input order, in front of them otherwise
SortInsert(sorted, x, keys, ascending, stable) ==
  LET stops == { i \in 1..Len(sorted) :
                   \/ RowBefore(x, sorted[i], keys, 1, ascending)
                   \/ ~stable /\ Ties(x, sorted[i], keys) }
      at == IF stops = {} THEN Len(sorted) + 1
            ELSE CHOOSE i \in stops : \A j \in stops : i <= j
  IN SubSeq(sorted, 1, at - 1) \o <<x>> \o SubSeq(sorted, at, Len(sorted))

RECURSIVE SortedRows(_, _, _, _, _)
\* The first n rows in sorted order
SortedRows(rows, n, keys, ascending, stable) ==
  IF n = 0 THEN <<>>
  ELSE SortInsert(SortedRows(rows, n - 1, keys, ascending, stable),
                  rows[n], keys, ascending, stable)

\* A key column holds both strings and numbers, which Python cannot order
MixedKey(df, label) ==
  /\ \E r \in 1..Len(df.rows) : Series(df, label)[r].kind = "text"
  /\ \E r \in 1..Len(df.rows) : IsNumeric(Series(df, label)[r])

\* op_type == "sort_rows". sort_values sorts one key with argsort(kind="quicksort"),
\* which keeps ties in input order or not as the build decides (stable_sort),
\* and several keys with a lexsort, which keeps them.
SortRows(df, operation) ==
  LET by == IF "by" \in DOMAIN operation.v THEN operation.v["by"] ELSE JList(<<>>)
      ascending == IF "ascending" \in DOMAIN operation.v
                     THEN operation.v["ascending"] ELSE JBool(TRUE)
  IN IF by.kind # "list" \/ by.v = <<>>
       THEN Raises("TransformationError", "sort_rows requires non-empty 'by' list.")
     ELSE IF ascending.kind # "bool"
       THEN Raises("TransformationError", "sort_rows.ascending must be boolean.")
     ELSE LET req == RequireHashable(df, by.v)
          IN IF req.status # "ok" THEN req
             ELSE IF ~AllSeries(df, by.v)
               THEN Raises("ValueError", "The column label is not unique.")
             ELSE IF \E j \in 1..Len(by.v) : MixedKey(df, by.v[j])
               THEN Raises("TypeError", "'<' not supported between instances of 'str' and 'int'")
             ELSE Returns(DataFrame(df.columns,
                    SortedRows(df.rows, Len(df.rows),
                               [j \in 1..Len(by.v) |-> PositionOf(df, by.v[j])],
                               ascending.v,
                               stable_sort \/ Len(by.v) > 1)))

\* One pass of the loop body of apply_plan
ApplyOperation(df, operation) ==
  LET op_type == operation.v["type"].v
  IN CASE op_type = "rename_column" -> RenameColumn(df, operation)
       [] op_type = "drop_columns" -> DropColumns(df, operation)
       [] op_type = "fill_null" -> FillNull(df, operation)
       [] op_type = "cast_type" -> CastType(df, operation)
       [] op_type = "trim_whitespace" -> TrimWhitespace(df, operation)
       [] op_type = "change_case" -> ChangeCase(df, operation)
       [] op_type = "derive_numeric" -> DeriveNumeric(df, operation)
       [] op_type = "filter_rows" -> FilterRows(df, operation)
       [] op_type = "sort_rows" -> SortRows(df, operation)

\* What the loop of apply_plan works on: the frame bound to `transformed`,
\* whether that object is the one the caller passed in, and the caller's frame.
\* A plausible slip: the plan is run on the caller's frame itself.
CopyFrameAlias(df) == [caller |-> df, frame |-> df, shared |-> TRUE]

\* transformed = df.copy()
CopyFrame(df) == [caller |-> df, frame |-> df, shared |-> FALSE]

\* The branches that assign into `transformed` (transformed.loc[:, column] = ...);
\* the other branches bind `transformed` to a new frame.
AssignsInPlace(op_type) ==
  op_type \in {"fill_null", "cast_type", "trim_whitespace", "change_case",
               "derive_numeric"}

\* `transformed` after an operation that produced the frame result
Rebound(st, operation, result) ==
  IF AssignsInPlace(operation.v["type"].v)
    THEN [ caller |-> IF st.shared THEN result ELSE st.caller,
           frame |-> result, shared |-> st.shared ]
    ELSE [ caller |-> st.caller, frame |-> result, shared |-> FALSE ]

RECURSIVE RunOperationsBackwards(_, _, _)
\* A plausible slip: the list is walked from its last element to its first.
RunOperationsBackwards(st, operations, i) ==
  IF i > Len(operations) THEN [outcome |-> Returns(st.frame), caller |-> st.caller]
  ELSE LET operation == operations[Len(operations) + 1 - i]
           step == ApplyOperation(st.frame, operation)
       IN IF step.status # "ok" THEN [outcome |-> step, caller |-> st.caller]
          ELSE RunOperationsBackwards(Rebound(st, operation, step.value[1]),
                                      operations, i + 1)

RECURSIVE RunOperations(_, _, _)
\* for operation in operations: ... ; return transformed
RunOperations(st, operations, i) ==
  IF i > Len(operations) THEN [outcome |-> Returns(st.frame), caller |-> st.caller]
  ELSE LET step == ApplyOperation(st.frame, operations[i])
       IN IF step.status # "ok" THEN [outcome |-> step, caller |-> st.caller]
          ELSE RunOperations(Rebound(st, operations[i], step.value[1]),
                             operations, i + 1)

\* apply_plan: validate, copy the frame, run the operations in order. The
\* outcome is what the call returns or raises; caller is the frame the caller
\* passed in, as it is when the call ends.
ApplyPlanRun(df, plan) ==
  LET validated == ValidatePlan(plan)
  IN IF validated.status # "ok" THEN [outcome |-> validated, caller |-> df]
     ELSE RunOperations(CopyFrame(df), validated.value[1], 1)

apply_plan(df, plan) == ApplyPlanRun(df, plan).outcome

\* ------------------------------------------------------------ plan oracle
GENERIC_CLARIFY_QUESTION ==
  JText(<<"La richiesta non e ancora chiara. Vuoi procedere con impostazioni consigliate?">>)
GENERIC_CLARIFY_CHOICES ==
  <<JText(<<"Si, usa impostazioni consigliate">>),
    JText(<<"No, preferisco specificare meglio">>)>>
\* the question and choices of the 401/403 branch
AUTH_CLARIFY_QUESTION ==
  JText(<<"Non riesco ad autenticarmi al provider LLM. Vuoi riprovare con un prompt piu specifico?">>)
AUTH_CLARIFY_CHOICES == <<JText(<<"Riprova ora">>), JText(<<"Modifica prompt">>)>>

\* uuid4().hex: a token no earlier call produced and no caller can send
Uuid(n) == [kind |-> "uuid", v |-> n]

\* A plausible slip: the text is returned as it came, untrimmed.
StripTextNoop(j) == j

\* str.strip()
StripText(j) == IF j.kind = "text" THEN JText(Strip(j.v)) ELSE j

\* isinstance(x, str) and x.strip()
NonBlankStr(j) ==
  \/ j.kind = "text" /\ Strip(j.v) # <<>>
  \/ j.kind = "str" /\ j.v # ""

RECURSIVE KeepChoices(_, _)
\* the loop of _normalize_choices: non-blank strings, stripped, in order
KeepChoices(items, i) ==
  IF i > Len(items) THEN <<>>
  ELSE (IF NonBlankStr(items[i]) THEN <<StripText(items[i])>> ELSE <<>>)
         \o KeepChoices(items, i + 1)

\* _normalize_choices
NormalizeChoices(raw_choices) ==
  IF raw_choices.kind # "list" THEN <<>> ELSE KeepChoices(raw_choices.v, 1)

\* choices[:4]
FirstFour(choices) == SubSeq(choices, 1, Min(4, Len(choices)))

\* A plausible slip: the identifier is carried over without the blank test.
ClarifyIdUnchecked(clarify_id, fresh) ==
  IF IsStr(clarify_id) THEN StripText(clarify_id) ELSE fresh

\* clarify_id.strip() if isinstance(clarify_id, str) and clarify_id.strip()
\*   else uuid4().hex
ClarifyIdOrFresh(clarify_id, fresh) ==
  IF NonBlankStr(clarify_id) THEN StripText(clarify_id) ELSE fresh

\* _clarify_response
ClarifyResponse(question, choices, clarify_id, fresh) ==
  [ type |-> "clarify",
    question |-> StripText(question),
    choices |-> FirstFour(choices),
    clarify_id |-> ClarifyIdOrFresh(clarify_id, fresh),
    operations |-> <<>> ]

\* {"type": "plan", "plan": sanitized_plan, "warnings": []}
PlanResponse(operations) ==
  [ type |-> "plan",
    question |-> JNone,
    choices |-> <<>>,
    clarify_id |-> JNone,
    operations |-> operations ]

\* A plausible slip: operations of unsupported types are kept.
KeepsOperationAny(operation) == operation.kind = "dict"

\* isinstance(operation, dict) and op_type in SUPPORTED_OPERATIONS
KeepsOperation(operation) ==
  /\ operation.kind = "dict"
  /\ Get(operation, "type").kind = "str"
  /\ Get(operation, "type").v \in SUPPORTED_OPERATIONS

RECURSIVE SafeOperationsBackwards(_, _)
\* A plausible slip: the retained operations are collected in reverse.
SafeOperationsBackwards(items, i) ==
  IF i > Len(items) THEN <<>>
  ELSE SafeOperationsBackwards(items, i + 1)
         \o (IF KeepsOperation(items[i]) THEN <<items[i]>> ELSE <<>>)

RECURSIVE SafeOperations(_, _)
\* the loop of _sanitize_plan_payload
SafeOperations(items, i) ==
  IF i > Len(items) THEN <<>>
  ELSE (IF KeepsOperation(items[i]) THEN <<items[i]>> ELSE <<>>)
         \o SafeOperations(items, i + 1)

\* op_type not in SUPPORTED_OPERATIONS raises on an unhashable op_type
SanitizeRaises(items) ==
  \E i \in 1..Len(items) :
    items[i].kind = "dict" /\ ~Hashable(Get(items[i], "type"))

\* _sanitize_plan_payload
SanitizePlanPayload(raw_plan) ==
  IF raw_plan.kind # "dict" THEN Returns(<<>>)
  ELSE LET operations == Get(raw_plan, "operations")
           items == IF operations.kind = "list" THEN operations.v ELSE <<>>
       IN IF SanitizeRaises(items)
            THEN Raises("TypeError", "unhashable type")
            ELSE Returns(SafeOperations(items, 1))

\* response_type == "clarify" / "plan"
IsTag(j, tag) == j.kind = "str" /\ j.v = tag

\* _normalize_llm_payload
NormalizeLlmPayload(payload, clarify_id, fresh) ==
  LET response_type == Get(payload, "type")
  IN IF IsTag(response_type, "clarify")
       THEN LET question == Get(payload, "question")
                raw_clarify_id == Get(payload, "clarify_id")
                normalized_choices == NormalizeChoices(Get(payload, "choices"))
            IN Returns(ClarifyResponse(
                 IF NonBlankStr(question) THEN question ELSE GENERIC_CLARIFY_QUESTION,
                 IF normalized_choices # <<>> THEN normalized_choices
                                             ELSE GENERIC_CLARIFY_CHOICES,
                 IF IsStr(raw_clarify_id) THEN raw_clarify_id ELSE clarify_id,
                 fresh))
     ELSE IF IsTag(response_type, "plan")
       THEN LET sanitized == SanitizePlanPayload(Get(payload, "plan"))
            IN IF sanitized.status # "ok" THEN sanitized
               ELSE IF Len(sanitized.value[1]) > 0
                 THEN Returns(PlanResponse(sanitized.value[1]))
               ELSE Returns(ClarifyResponse(GENERIC_CLARIFY_QUESTION,
                                            GENERIC_CLARIFY_CHOICES, clarify_id, fresh))
     ELSE Returns(ClarifyResponse(GENERIC_CLARIFY_QUESTION,
                                  GENERIC_CLARIFY_CHOICES, clarify_id, fresh))

\* What the external call did: raised (with the status code the error carries
\* itself or on its response, 0 for none) or answered with a message content.
ServiceRaised(code) ==
  [kind |-> "raise", status_code |-> code, response_status |-> 0, content |-> JNone]
ServiceRaisedWithResponse(code) ==
  [kind |-> "raise", status_code |-> 0, response_status |-> code, content |-> JNone]
ServiceAnswered(c) ==
  [kind |-> "content", status_code |-> 0, response_status |-> 0, content |-> c]

\* A message content: None, or a text that is empty, is no JSON at all, is one
\* JSON value, or is prose wrapped around a JSON object.
ContentNone == [form |-> "none", json |-> JNone]
ContentEmpty == [form |-> "empty", json |-> JNone]
ContentGarbage == [form |-> "garbage", json |-> JNone]
ContentJson(j) == [form |-> "json", json |-> j]
ContentWrapped(j) == [form |-> "wrapped", json |-> j]

\* _parse_json_payload: the dict in the content, or None
ParseJsonPayload(content) ==
  IF content.form \in {"json", "wrapped"} /\ content.json.kind = "dict"
    THEN content.json
    ELSE JNone

\* _extract_status_code: error.status_code when it is an int, else
\* error.response.status_code when that is one, else None (0)
ExtractStatusCode(error) ==
  IF error.status_code # 0 THEN error.status_code ELSE error.response_status

\* A check that takes 401 alone for a rejected credential
IsAuthFailure401Only(outcome) == ExtractStatusCode(outcome) = 401

\* upstream_status in {401, 403}
IsAuthFailure(outcome) == ExtractStatusCode(outcome) \in {401, 403}

\* _create_plan_internal: client_present is "self._client is not None"
CreatePlanInternal(has_client, outcome, clarify_id, fresh) ==
  LET generic == ClarifyResponse(GENERIC_CLARIFY_QUESTION, GENERIC_CLARIFY_CHOICES,
                                 clarify_id, fresh)
  IN IF ~has_client THEN generic
     ELSE IF outcome.kind = "raise"
       THEN IF IsAuthFailure(outcome)
              THEN ClarifyResponse(AUTH_CLARIFY_QUESTION, AUTH_CLARIFY_CHOICES,
                                   clarify_id, fresh)
              ELSE generic
     ELSE LET parsed == ParseJsonPayload(outcome.content)
          IN IF parsed.kind # "dict" THEN generic
             ELSE LET normalized == NormalizeLlmPayload(parsed, clarify_id, fresh)
                  IN IF normalized.status = "ok" THEN normalized.value[1]
                     ELSE generic

\* A request that carries the context of every call, resumed or not
ClarificationContextAlways(clarify_id, answer) == <<clarify_id, answer>>

\* "clarification": {...} if clarify_id and answer else None
ClarificationContext(clarify_id, answer) ==
  IF Truthy(clarify_id) /\ Truthy(answer)
    THEN <<clarify_id, answer>>
    ELSE <<>>

\* ------------------------------------------------- interpreter: inputs
MaxPlanLen == 2      \* longest operations list explored

NotCalled == [status |-> "none", value |-> <<>>, msg |-> ""]

Col(name) == JStr(name)
Text(chars) == JText(chars)

\* The frames handed to apply_plan: the one of the test suite, one with a
\* null and untrimmed text, and one with no rows.
Frames ==
  << DataFrame(<<Col("name"), Col("amount"), Col("tax")>>,
               << <<Text(<<"a", "n">>), JNum(10), JNum(1)>>,
                  <<Text(<<"m", "a">>), JNum(20), JNum(2)>> >>),
     DataFrame(<<Col("name"), Col("amount")>>,
               << <<Text(<<" ", "a", " ">>), JNum(10)>>,
                  <<JNone, JNum(0)>>,
                  <<Text(<<"B">>), JNone>> >>),
     DataFrame(<<Col("name")>>, <<>>) >>

Op(f) == JDict(f)

\* The elements an operations list is built from: well-formed and malformed
\* operations of the nine kinds, and elements _validate_plan rejects.
Elements ==
  << Op("type" :> JStr("rename_column") @@ "from" :> Col("name") @@ "to" :> Col("label")),
     Op("type" :> JStr("rename_column") @@ "from" :> Col("name") @@ "to" :> Col("name")),
     Op("type" :> JStr("rename_column") @@ "from" :> Col("amount") @@ "to" :> Col("name")),
     Op("type" :> JStr("rename_column") @@ "from" :> Col("label") @@ "to" :> Col("name")),
     Op("type" :> JStr("rename_column") @@ "from" :> Col("name")),
     Op("type" :> JStr("rename_column") @@ "from" :> JNum(5) @@ "to" :> Col("x")),
     Op("type" :> JStr("drop_columns") @@ "columns" :> JList(<<Col("name")>>)),
     Op("type" :> JStr("drop_columns") @@ "columns" :> JList(<<Col("amount"), Col("tax")>>)),
     Op("type" :> JStr("drop_columns") @@ "columns" :> JList(<<>>)),
     Op("type" :> JStr("drop_columns") @@ "columns" :> Col("name")),
     Op("type" :> JStr("unsupported_op")),
     Op("from" :> Col("name") @@ "to" :> Col("label")),
     Op("type" :> JList(<<JStr("drop_columns")>>)),
     JStr("drop_columns"),
     Op("type" :> JStr("fill_null") @@ "column" :> Col("name")
          @@ "value" :> Text(<<"n", "a">>)),
     Op("type" :> JStr("fill_null") @@ "column" :> Col("amount")),
     Op("type" :> JStr("trim_whitespace") @@ "columns" :> JList(<<Col("name")>>)),
     Op("type" :> JStr("change_case") @@ "columns" :> JList(<<Col("name")>>)
          @@ "case" :> JStr("upper")),
     Op("type" :> JStr("cast_type") @@ "column" :> Col("name")
          @@ "dtype" :> JStr("string")),
     Op("type" :> JStr("derive_numeric") @@ "left_column" :> Col("amount")
          @@ "right_column" :> Col("amount") @@ "new_column" :> Col("ratio")
          @@ "operator" :> JStr("div")),
     Op("type" :> JStr("derive_numeric") @@ "left_column" :> Col("amount")
          @@ "right_column" :> Col("tax") @@ "new_column" :> Col("total")
          @@ "operator" :> JStr("add")),
     Op("type" :> JStr("filter_rows") @@ "column" :> Col("amount")
          @@ "comparator" :> JStr("gt") @@ "value" :> JNum(10)),
     Op("type" :> JStr("filter_rows") @@ "column" :> Col("amount")
          @@ "comparator" :> JStr("gt") @@ "value" :> Text(<<"1", "0">>)),
     Op("type" :> JStr("filter_rows") @@ "column" :> Col("name")
          @@ "comparator" :> JStr("eq") @@ "value" :> Text(<<"a", "n">>)),
     Op("type" :> JStr("sort_rows") @@ "by" :> JList(<<Col("amount")>>)
          @@ "ascending" :> JBool(FALSE)),
     Op("type" :> JStr("sort_rows") @@ "by" :> JList(<<Col("name")>>)),
     Op("type" :> JStr("drop_columns") @@ "columns" :> JList(<<JNum(5)>>)) >>

\* The operations lists of length n over Elements
ElementLists(n) ==
  { [i \in 1..n |-> Elements[ix[i]]] : ix \in [1..n -> 1..Len(Elements)] }

\* {"operations": [...]}
PlanOf(items) == JDict("operations" :> JList(items))

\* Plans whose top-level shape is not {operations: list}
ShapelessPlans ==
  << JDict(<<>>),
     JDict("operations" :> JNone),
     JDict("operations" :> JStr("drop_columns")),
     JDict("operations" :> Op("type" :> JStr("drop_columns"))) >>

\* ---------------------------------------------------- interpreter: calls
InterpIdle ==
  /\ source_df = Frames[1]
  /\ payload_plan = JDict(<<>>)
  /\ apply_result = NotCalled
  /\ stable_sort = TRUE
  /\ object_round = "skips"

\* transformed_df = apply_plan(source_df, payload.plan)
ApplyPlan ==
  /\ apply_result = NotCalled
  /\ apply_result' = apply_plan(source_df, payload_plan)
  /\ source_df' = ApplyPlanRun(source_df, payload_plan).caller
  /\ UNCHANGED << payload_plan, stable_sort, object_round, quotaVars, oracleVars, routerVars >>

\* ------------------------------------------------------- oracle: inputs
MaxTokens == 1       \* tokens uuid4 produced before the call explored

\* {"type": "plan", "plan": raw_plan}
PlanPayload(raw_plan) == JDict("type" :> JStr("plan") @@ "plan" :> raw_plan)

\* The elements of the plans the service sends: those that differ in what
\* _sanitize_plan_payload reads, being an object and the type
RawElements ==
  SelectSeq(Elements,
            LAMBDA e : \/ e.kind # "dict"
                       \/ Get(e, "type").kind # "str"
                       \/ Get(e, "type").v \in
                            {"rename_column", "drop_columns", "unsupported_op"})

\* The operations lists of length n over RawElements
RawElementLists(n) ==
  { [i \in 1..n |-> RawElements[ix[i]]] : ix \in [1..n -> 1..Len(RawElements)] }

\* The raw plans the service sends: every operations list over RawElements,
\* and plans that are no dict or hold no operations list.
RawPlans ==
  { PlanOf(items) : items \in UNION { RawElementLists(n) : n \in 0..MaxPlanLen } }
    \cup { JNone, JStr("plan"), JList(<<>>), JDict(<<>>),
           JDict("operations" :> JStr("none")) }

ResponseId == JText(<<"resp-id">>)

Questions ==
  { JNone, JNum(7), JText(<<>>), JText(<<" ", "\t">>), JText(<<" ", "Per cliente?", " ">>) }

ChoiceLists ==
  { JNone, JStr("A"), JList(<<>>),
    JList(<<JText(<<" ", "A">>), JNum(1), JText(<<" ">>), JText(<<"B", " ">>)>>),
    JList(<<JText(<<"A">>), JText(<<"B">>), JText(<<"C">>), JText(<<"D">>),
            JText(<<"E">>)>>) }

ResponseIds ==
  { JNone, JNum(7), JText(<<>>), JText(<<" ">>), JText(<<" ", "resp-id", " ">>) }

\* {"type": "clarify", ...} with each field absent, mistyped, blank or filled
ClarifyPayloads ==
  { JDict("type" :> JStr("clarify") @@ "question" :> q @@ "choices" :> c
                                     @@ "clarify_id" :> i) :
      q \in Questions, c \in ChoiceLists, i \in ResponseIds }

\* Objects whose "type" is missing or is none of the two tags, with and
\* without a clarify_id of their own
UntypedPayloads ==
  { JDict(<<>>),
    JDict("clarify_id" :> ResponseId),
    JDict("type" :> JStr("other") @@ "clarify_id" :> ResponseId),
    JDict("type" :> JNum(1)),
    JDict("type" :> JList(<<JStr("plan")>>) @@ "clarify_id" :> ResponseId),
    JDict("question" :> JText(<<"Per cliente?">>) @@ "clarify_id" :> ResponseId) }

Payloads == { PlanPayload(p) : p \in RawPlans } \cup ClarifyPayloads \cup UntypedPayloads

\* What one outbound request can end in
ServiceOutcomes ==
  { ServiceRaised(c) : c \in {0, 401, 403, 500} }
    \cup { ServiceRaisedWithResponse(c) : c \in {403, 500} }
    \cup { ServiceAnswered(c) : c \in {ContentNone, ContentEmpty, ContentGarbage} }
    \cup { ServiceAnswered(ContentJson(j)) :
             j \in {JList(<<>>), JNum(1), JStr("plan")} }
    \cup { ServiceAnswered(ContentJson(j)) : j \in Payloads }
    \cup { ServiceAnswered(ContentWrapped(j)) : j \in UntypedPayloads }

\* The clarify_id and answer a resume call is given
CallIds == { JText(<<"call-id">>), JText(<<" ", "call-id", " ">>), JText(<<" ">>), JText(<<>>) }
Answers == { JText(<<"Per cliente">>), JText(<<>>) }

NoOutcome == ServiceRaised(0)

\* A call of the oracle as it is made: which entry point, its clarify_id and
\* answer, and what the external service will do if it is asked.
Call(fn, clarify_id, answer, outcome) ==
  [ fn |-> fn, clarify_id |-> clarify_id, answer |-> answer, outcome |-> outcome,
    sent |-> 0, context |-> <<>>, attempts |-> 0 ]

NoCall == Call("none", JNone, JNone, NoOutcome)

NoResult ==
  [ type |-> "none", question |-> JNone, choices |-> <<>>, clarify_id |-> JNone,
    operations |-> <<>> ]

\* ------------------------------------------------ oracle: construction
OPENAI == <<"o", "p", "e", "n", "a", "i">>
KIMI == <<"k", "i", "m", "i">>

\* normalized_provider
NormalizedProvider(provider) ==
  IF Truthy(provider) THEN LowerText(Strip(provider.v)) ELSE OPENAI

\* self._provider
SelectedProvider(provider) ==
  IF NormalizedProvider(provider) \in {OPENAI, KIMI}
    THEN NormalizedProvider(provider) ELSE OPENAI

\* An api key taken from the other provider when the provider's own is missing
ApiKeyOrOther(provider, openai_api_key, kimi_api_key) ==
  LET own == IF SelectedProvider(provider) = KIMI THEN kimi_api_key ELSE openai_api_key
      other == IF SelectedProvider(provider) = KIMI THEN openai_api_key ELSE kimi_api_key
  IN IF Truthy(own) THEN own ELSE other

\* self._api_key
ApiKey(provider, openai_api_key, kimi_api_key) ==
  IF SelectedProvider(provider) = KIMI THEN kimi_api_key ELSE openai_api_key

\* self._client = None
NoClient == JNone

\* LLMPlanner.__init__: the client exists only when the key is truthy, and is
\* built with that key
LLMPlannerInit(settings) ==
  LET api_key == ApiKey(settings.llm_provider, settings.openai_api_key,
                        settings.kimi_api_key)
  IN [ provider |-> SelectedProvider(settings.llm_provider),
       api_key |-> api_key,
       client |-> IF Truthy(api_key) THEN api_key ELSE NoClient ]

\* Settings(llm_provider=..., openai_api_key=..., kimi_api_key=...)
Settings(llm_provider, openai_api_key, kimi_api_key) ==
  [ llm_provider |-> llm_provider, openai_api_key |-> openai_api_key,
    kimi_api_key |-> kimi_api_key ]

\* The defaults of the Settings dataclass
DefaultSettings == Settings(JText(OPENAI), JNone, JNone)

\* The provider names a configuration may hold: both providers, a spelling
\* to normalise, an unknown name, and none
ProviderNames ==
  { JText(OPENAI), JText(KIMI), JText(<<" ", "K", "i", "m", "i", " ">>),
    JText(<<"O", "P", "E", "N", "A", "I">>), JText(<<"a", "b", "l", "e">>),
    JText(<<>>), JNone }

\* The api keys a configuration may hold: none, the empty string, a key
OpenaiKeys == { JNone, JText(<<>>), JText(<<"sk-openai">>) }
KimiKeys == { JNone, JText(<<>>), JText(<<"sk-kimi">>) }

AllSettings ==
  { Settings(p, ok, kk) : p \in ProviderNames, ok \in OpenaiKeys, kk \in KimiKeys }

\* build_services: the planner is constructed from the settings
Constructed(settings) ==
  /\ llm_settings = settings
  /\ planner = LLMPlannerInit(settings)
  /\ client_present = (planner.client # NoClient)

\* ------------------------------------------------------- oracle: calls
OracleIdle ==
  /\ Constructed(DefaultSettings)
  /\ uuid_count = 0
  /\ oracle_call = NoCall
  /\ oracle_result = NoResult

\* The HTTP requests one chat.completions.create makes. The client is built
\* as OpenAI(api_key=..., base_url=...), with no max_retries, so the SDK keeps
\* its default of two further attempts after a connection error, a timeout or
\* a status of 408, 409, 429 or 5xx; the outcome of the call is that of the
\* last attempt.
SdkRequests(has_client) == IF has_client THEN {1, 2, 3} ELSE {0}

\* One run of _create_plan_internal: at most one call of the client, whose
\* outcome is the service's choice; a token is drawn only if it is used.
OracleRun ==
  LET fresh == Uuid(uuid_count + 1)
      result == CreatePlanInternal(client_present, oracle_call.outcome,
                                   oracle_call.clarify_id, fresh)
  IN /\ oracle_result = NoResult
     /\ \E attempts \in SdkRequests(client_present) : oracle_call' =
          [ oracle_call EXCEPT
              !.sent = IF client_present THEN 1 ELSE 0,
              !.attempts = attempts,
              !.context = IF client_present
                            THEN ClarificationContext(oracle_call.clarify_id,
                                                      oracle_call.answer)
                            ELSE <<>> ]
     /\ oracle_result' = result
     /\ uuid_count' = IF result.clarify_id = fresh THEN uuid_count + 1 ELSE uuid_count
     /\ UNCHANGED << llm_settings, planner, client_present, quotaVars, interpVars >>

\* A call made on the planner directly
OracleCall == OracleRun /\ UNCHANGED routerVars

\* LLMPlanner.create_plan
CreatePlan ==
  /\ oracle_call.fn = "create_plan"
  /\ OracleCall

\* LLMPlanner.create_plan_from_clarification
CreatePlanFromClarification ==
  /\ oracle_call.fn = "create_plan_from_clarification"
  /\ OracleCall

\* ------------------------------------------------- POST /api/transform
MaxRequests == 3     \* POST /transform requests explored

\* The plans a client posts: one that renames a column, one that renames a
\* column onto the label of another, one flagged as needing clarification, one
\* with no operations, and one with an operation of no supported type.
TransformPlans ==
  << PlanOf(<<Elements[1]>>),
     PlanOf(<<Elements[3]>>),
     JDict("operations" :> JList(<<Elements[1]>>) @@ "needs_clarification" :> JBool(TRUE)),
     PlanOf(<<>>),
     PlanOf(<<Elements[11]>>) >>

\* The uploads a client names: one that is stored, one that is not
FileIds == {"f1", "missing"}

\* file_store.load_upload_df
LoadUploadDf(file_id) ==
  IF file_id = "f1" THEN Returns(Frames[1])
                    ELSE Raises("FileNotFoundError", "Source file not found.")

\* The requests explored: every plan by every spelling on the stored upload,
\* and the first plan on the missing one.
TransformRequests ==
  { [user |-> u, plan |-> i, file |-> "f1"] :
      u \in RawUserIds, i \in 1..Len(TransformPlans) }
    \cup { [user |-> u, plan |-> 1, file |-> "missing"] : u \in RawUserIds }

NoResponse ==
  [ endpoint |-> "none", user |-> <<>>, status_code |-> 0, usage |-> <<>>,
    logged |-> [status |-> "", error_code |-> ""],
    decided |-> [status_code |-> 0, usage |-> <<>>], log |-> "none", body |-> <<>> ]

\* What a request leaves behind: the HTTP status, the usage pair of a 200 body,
\* and the status and error_code handed to log_transform_event.
\* decided is the outcome as apply_transform has it on entering the finally
\* clause.
Response(u, code, pair, error_code) ==
  [ endpoint |-> "transform", user |-> u, status_code |-> code, usage |-> pair,
    logged |-> [status |-> IF code = 200 THEN "success" ELSE "error",
                error_code |-> error_code],
    decided |-> [status_code |-> code, usage |-> pair], log |-> "none",
    body |-> <<>> ]

\* A logger whose failure leaves log_transform_event as an exception
LogTransformEventRaising(store_ok) == IF store_ok THEN "stored" ELSE "raised"

\* AnalyticsLogger.log_transform_event: the row is stored, or the failure of
\* the store is swallowed by "except Exception: return"
LogTransformEvent(store_ok) == IF store_ok THEN "stored" ELSE "dropped"

\* What leaves the finally clause: an exception raised inside it replaces the
\* outcome the handler had, and reaches the client as a 500
AfterFinally(response, log) ==
  IF log = "raised"
    THEN [response EXCEPT !.status_code = 500, !.usage = <<>>, !.log = log]
    ELSE [response EXCEPT !.log = log]

\* _clarification_guard: TRUE when it returns a message
ClarificationGuard(plan) ==
  LET needs_clarification == Truthy(Get(plan, "needs_clarification"))
      operations == Get(plan, "operations")
      has_operations == operations.kind = "list" /\ Len(operations.v) > 0
  IN needs_clarification \/ ~has_operations

\* build_analysis reads df[column] as a Series, which it is not when the label
\* occurs twice
BuildAnalysisRaises(df) ==
  \E i, j \in 1..Len(df.columns) : i # j /\ JEq(df.columns[i], df.columns[j])

\* The except clauses of apply_transform: status code and error_code by exception
ErrorStatus(exc) ==
  CASE exc = "FileNotFoundError" -> 404
    [] exc \in {"TransformationError", "ValueError"} -> 400
    [] OTHER -> 500

ErrorCode(exc) ==
  CASE exc = "FileNotFoundError" -> "source_not_found"
    [] exc = "TransformationError" -> "invalid_plan"
    [] exc = "ValueError" -> "invalid_request"
    [] OTHER -> "internal_error"

RouterIdle ==
  /\ inflight = [t \in Threads |-> NoRequest]
  /\ requests = 0
  /\ accepted = [r \in RawUserIds |-> 0]
  /\ lastResponse = NoResponse
  /\ log_attempts = 0

\* The request thread t serves ends with this response, after the finally
\* clause has made its one call of the logger, whose store works or fails.
Respond(t, response) ==
  \E store_ok \in BOOLEAN :
    LET sent == AfterFinally(response, LogTransformEvent(store_ok))
    IN /\ lastResponse' = sent
       /\ log_attempts' = log_attempts + 1
       /\ inflight' = [inflight EXCEPT ![t] = NoRequest]
       /\ accepted' = IF sent.status_code = 200
                        THEN [accepted EXCEPT ![sent.user] = @ + 1]
                        ELSE accepted

\* apply_transform up to and including the can_consume test
TransformStart(t, r) ==
  LET plan == TransformPlans[r.plan]
      operations == Get(plan, "operations")
  IN /\ th[t].pc = "idle"
     /\ inflight[t].pc = "none"
     /\ requests < MaxRequests
     /\ requests' = requests + 1
     /\ IF operations.kind # "list" \/ Len(operations.v) = 0
          THEN Respond(t, Response(r.user, 400, <<>>, "invalid_plan"))
        ELSE IF ClarificationGuard(plan)
          THEN Respond(t, Response(r.user, 400, <<>>, "clarification_required"))
        ELSE IF ~can_consume(r.user)
          THEN Respond(t, Response(r.user, 429, <<>>, "limit_reached"))
        ELSE /\ inflight' = [inflight EXCEPT ![t] =
                               [NoRequest EXCEPT !.pc = "run", !.user = r.user,
                                                 !.plan = r.plan, !.file = r.file]]
             /\ UNCHANGED << accepted, lastResponse, log_attempts >>
     /\ UNCHANGED << quotaVars, interpVars, oracleVars >>

\* transformed_df of the request thread t serves
TransformedDf(t) ==
  LET source_frame == LoadUploadDf(inflight[t].file)
  IN IF source_frame.status # "ok" THEN source_frame
     ELSE apply_plan(source_frame.value[1], TransformPlans[inflight[t].plan])

\* load_upload_df, apply_plan, save_result, and the call of consume
TransformRun(t) ==
  LET transformed == TransformedDf(t)
  IN /\ inflight[t].pc = "run"
     /\ IF transformed.status # "ok"
          THEN /\ Respond(t, Response(inflight[t].user, ErrorStatus(transformed.status),
                                      <<>>, ErrorCode(transformed.status)))
               /\ UNCHANGED quotaVars
          ELSE /\ inflight' = [inflight EXCEPT ![t].pc = "consume"]
               /\ EnterConsume(t, inflight[t].user)
               /\ UNCHANGED << accepted, lastResponse, log_attempts >>
     /\ UNCHANGED << requests, interpVars, oracleVars >>

\* consume has returned: build_analysis, then the response
TransformFinish(t) ==
  /\ inflight[t].pc = "returned"
  /\ IF BuildAnalysisRaises(TransformedDf(t).value[1])
       THEN Respond(t, Response(inflight[t].user, 500, <<>>, "internal_error"))
       ELSE Respond(t, Response(inflight[t].user, 200, inflight[t].ret, "none"))
  /\ UNCHANGED << requests, quotaVars, interpVars, oracleVars >>

\* The previews explored: every plan on both uploads
PreviewRequests ==
  { [plan |-> i, file |-> f] : i \in 1..Len(TransformPlans), f \in FileIds }

\* What a preview answers: the status, and no usage and no logged event
PreviewResponse(code) ==
  [ NoResponse EXCEPT !.endpoint = "preview", !.status_code = code,
                      !.decided = [status_code |-> code, usage |-> <<>>] ]

\* The status preview_transform answers with
PreviewStatus(r) ==
  IF ClarificationGuard(TransformPlans[r.plan]) THEN 400
  ELSE LET source_frame == LoadUploadDf(r.file)
       IN IF source_frame.status # "ok" THEN ErrorStatus(source_frame.status)
          ELSE LET transformed == apply_plan(source_frame.value[1],
                                             TransformPlans[r.plan])
               IN IF transformed.status # "ok" THEN ErrorStatus(transformed.status)
                  ELSE IF BuildAnalysisRaises(transformed.value[1]) THEN 500
                  ELSE 200

\* A preview that charges a use as a transformation does
PreviewUsageCharged(table) ==
  InsertRow(table, <<"u", "1">>, StoredCount(table, <<"u", "1">>) + 1, 0)

\* Table usage after preview_transform: the request names no user and the
\* handler calls no method of the limiter
PreviewUsage(table) == table

\* POST /transform/preview, from the guard to the response
PreviewTransform(r) ==
  /\ lastResponse' = PreviewResponse(PreviewStatus(r))
  /\ usage' = PreviewUsage(usage)
  /\ UNCHANGED << max_uses, clock, lock, dbWriter, th, calls, lastRead, lastConsume,
                  consumeCalls, consumeDone, incs >>
  /\ UNCHANGED << inflight, requests, accepted, log_attempts, interpVars, oracleVars >>

\* The keys of the dict create_plan returns
ResultKeys(result) ==
  IF result.type = "plan" THEN {"type", "plan", "warnings"}
                          ELSE {"type", "question", "choices", "clarify_id"}

\* plan_payload, warnings = <dict>: unpacking iterates the keys, and needs
\* exactly two of them
UnpackPair(keys) ==
  IF Cardinality(keys) = 2 THEN Returns(keys)
  ELSE Raises("ValueError", "too many values to unpack (expected 2)")

\* generate_plan after create_plan has returned: the unpacking, and
\* plan_payload.get on what it yields, a key of the dict
PlanEndpointOutcome(result) ==
  LET unpacked == UnpackPair(ResultKeys(result))
  IN IF unpacked.status # "ok" THEN unpacked
     ELSE Raises("AttributeError", "'str' object has no attribute 'get'")

\* What POST /plan answers: an exception no clause catches is a 500 with no
\* body of the handler
PlanEndpointResponse(code) ==
  [ NoResponse EXCEPT !.endpoint = "plan", !.status_code = code,
                      !.decided = [status_code |-> code, usage |-> <<>>] ]

\* POST /plan
GeneratePlan(file_id) ==
  LET df == LoadUploadDf(file_id)
  IN /\ oracle_call.fn = "create_plan"
     /\ IF df.status # "ok"
          THEN /\ lastResponse' = PlanEndpointResponse(404)
               /\ UNCHANGED << oracleVars, quotaVars, interpVars >>
          ELSE /\ OracleRun
               /\ lastResponse' =
                    PlanEndpointResponse(
                      IF PlanEndpointOutcome(oracle_result').status = "ok"
                        THEN 200 ELSE 500)
     /\ UNCHANGED << inflight, requests, accepted, log_attempts >>

\* ------------------------------------------------------- specification
\* A limiter constructed over a new database, for each configured limit.
QuotaInit ==
  /\ max_uses \in 0..MaxLimit
  /\ usage = <<>>
  /\ clock = 0
  /\ lock = NoThread
  /\ dbWriter = NoThread
  /\ th = [t \in Threads |-> IdleThread]
  /\ calls = 0
  /\ lastRead = NoRead
  /\ lastConsume = NoConsume
  /\ consumeCalls = [r \in RawUserIds |-> 0]
  /\ consumeDone = [r \in RawUserIds |-> 0]
  /\ incs = [r \in RawUserIds |-> 0]

Init == QuotaInit /\ InterpIdle /\ OracleIdle /\ RouterIdle

Next ==
  \/ \E u \in RawUserIds : GetUsage(u)
  \/ \E u \in RawUserIds : GetRemaining(u)
  \/ \E u \in RawUserIds : CanConsume(u)
  \/ \E t \in Threads :
       \/ \E u \in RawUserIds : ConsumeCall(t, u)
       \/ AcquireLock(t)
       \/ BeginImmediate(t)
       \/ SelectRow(t)
       \/ ReturnAtLimit(t)
       \/ WriteRow(t)
       \/ Commit(t)

Spec == Init /\ [][Next]_vars

\* The interpreter called once on each frame and each plan of the input sets.
InitInterp ==
  /\ QuotaInit /\ max_uses = MaxLimit
  /\ \E f \in 1..Len(Frames) : source_df = Frames[f]
  /\ \/ \E n \in 0..MaxPlanLen : \E items \in ElementLists(n) :
          payload_plan = PlanOf(items)
     \/ \E i \in 1..Len(ShapelessPlans) : payload_plan = ShapelessPlans[i]
  /\ apply_result = NotCalled
  /\ stable_sort \in BOOLEAN
  /\ object_round = "skips"   \* no element of Elements asks for a round
  /\ OracleIdle
  /\ RouterIdle

NextInterp == ApplyPlan

SpecInterp == InitInterp /\ [][NextInterp]_vars

\* ------------------------------------------- single operations: inputs
\* Frames for one derive_numeric, filter_rows or sort_rows: those of Frames,
\* one with equal keys, a zero denominator and a quotient that is no whole
\* number, and one whose amount column mixes numbers and texts.
OperationFrames ==
  << Frames[1],
     Frames[2],
     DataFrame(<<Col("name"), Col("amount"), Col("tax")>>,
               << <<Text(<<"b">>), JNum(10), JNum(0)>>,
                  <<Text(<<"a">>), JNum(10), JNum(3)>>,
                  <<Text(<<"c">>), JNum(5), JNum(2)>> >>),
     DataFrame(<<Col("name"), Col("amount"), Col("tax")>>,
               << <<Text(<<"k">>), Text(<<"7">>), JNum(1)>>,
                  <<Text(<<"i">>), Text(<<"p">>), JNone>>,
                  <<Text(<<"k">>), JNum(20), JNum(0)>> >>) >>

\* The value of an optional field: absent, or the value given
Absent == [kind |-> "absent", v |-> 0]

Field(key, value) == IF value = Absent THEN <<>> ELSE key :> value

\* derive_numeric over amount, with each right column, operator and round
DeriveOperations ==
  { Op("type" :> JStr("derive_numeric") @@ "left_column" :> Col("amount")
         @@ "right_column" :> right @@ "new_column" :> Col("ratio")
         @@ "operator" :> JStr(operator) @@ Field("round", round)) :
      right \in {Col("tax"), Col("amount"), Col("name")},
      operator \in {"div", "mul"},
      round \in {Absent, JNum(0), JNum(2)} }

\* filter_rows with each column, comparator and value
FilterOperations ==
  { Op("type" :> JStr("filter_rows") @@ "column" :> column
         @@ "comparator" :> JStr(comparator) @@ Field("value", value)) :
      column \in {Col("amount"), Col("name")},
      comparator \in {"eq", "neq", "gt", "gte", "lt", "lte"},
      value \in {Absent, JNum(10), JNum(7), Text(<<"7">>), Text(<<"k">>)} }

\* sort_rows with each `by` and `ascending`
SortOperations ==
  { Op("type" :> JStr("sort_rows") @@ Field("by", by)
         @@ Field("ascending", ascending)) :
      by \in {Absent, JList(<<>>), Col("amount"), JList(<<Col("amount")>>),
              JList(<<Col("name")>>), JList(<<Col("tax")>>),
              JList(<<Col("amount"), Col("tax")>>), JList(<<Col("label")>>)},
      ascending \in {Absent, JBool(TRUE), JBool(FALSE), JNum(1), JNone} }

\* apply_plan called once with a plan of one such operation, on each build
InitOperation ==
  /\ QuotaInit /\ max_uses = MaxLimit
  /\ \E f \in 1..Len(OperationFrames) : source_df = OperationFrames[f]
  /\ \E operation \in DeriveOperations \cup FilterOperations \cup SortOperations :
       payload_plan = PlanOf(<<operation>>)
  /\ apply_result = NotCalled
  /\ stable_sort \in BOOLEAN
  /\ object_round \in ObjectRounds
  /\ OracleIdle
  /\ RouterIdle

NextOperation == ApplyPlan

SpecOperation == InitOperation /\ [][NextOperation]_vars

\* The oracle with and without a client, called once through either entry
\* point, for every outcome of the external service.
InitOracle ==
  /\ QuotaInit /\ max_uses = MaxLimit
  /\ InterpIdle
  /\ \/ Constructed(DefaultSettings)
     \/ Constructed(Settings(JText(OPENAI), JText(<<"sk-openai">>), JNone))
  /\ uuid_count \in 0..MaxTokens
  /\ \E outcome \in (IF client_present THEN ServiceOutcomes ELSE {NoOutcome}) :
       \/ oracle_call = Call("create_plan", JNone, JNone, outcome)
       \/ \E clarify_id \in CallIds, answer \in Answers :
            oracle_call = Call("create_plan_from_clarification",
                               clarify_id, answer, outcome)
  /\ oracle_result = NoResult
  /\ RouterIdle

NextOracle == CreatePlan \/ CreatePlanFromClarification

SpecOracle == InitOracle /\ [][NextOracle]_vars

\* The planner built from every configuration, called once through either
\* entry point; the service, where it is asked, answers with a plan or refuses
\* the key.
PlannerOutcomes ==
  { ServiceRaised(401), ServiceAnswered(ContentJson(PlanPayload(PlanOf(<<Elements[1]>>)))) }

InitPlanner ==
  /\ QuotaInit /\ max_uses = MaxLimit
  /\ InterpIdle
  /\ \E settings \in AllSettings : Constructed(settings)
  /\ uuid_count \in 0..MaxTokens
  /\ \E outcome \in (IF client_present THEN PlannerOutcomes ELSE {NoOutcome}) :
       \/ oracle_call = Call("create_plan", JNone, JNone, outcome)
       \/ \E clarify_id \in CallIds, answer \in Answers :
            oracle_call = Call("create_plan_from_clarification",
                               clarify_id, answer, outcome)
  /\ oracle_result = NoResult
  /\ RouterIdle

SpecPlanner == InitPlanner /\ [][NextOracle]_vars

\* Consume calls made directly on the limiter, with a store that can fail at
\* every point of a call.
InitStoreFailure == Init

NextStoreFailure ==
  \E t \in Threads :
    \/ \E u \in RawUserIds : ConsumeCall(t, u)
    \/ AcquireLock(t)
    \/ BeginImmediate(t)
    \/ SelectRow(t)
    \/ ReturnAtLimit(t)
    \/ WriteRow(t)
    \/ Commit(t)
    \/ StoreFails(t)
    \/ Propagate(t)

SpecStoreFailure == InitStoreFailure /\ [][NextStoreFailure]_vars

\* Concurrent POST /transform requests against one limiter.
InitTransform == Init

NextTransform ==
  \E t \in Threads :
    \/ \E r \in TransformRequests : TransformStart(t, r)
    \/ TransformRun(t)
    \/ AcquireLock(t)
    \/ BeginImmediate(t)
    \/ SelectRow(t)
    \/ ReturnAtLimit(t)
    \/ WriteRow(t)
    \/ Commit(t)
    \/ TransformFinish(t)

SpecTransform == InitTransform /\ [][NextTransform]_vars

\* The requests of one user on the stored upload and on a missing one, among
\* previews of every plan: transformations and previews in any interleaving.
ServiceRequests ==
  { r \in TransformRequests : r.user = <<"u", "1">> }

\* The two workers that serve the requests
ServiceWorkers == { t \in Threads : t <= 2 }

InitService == Init

NextService ==
  \/ \E t \in ServiceWorkers :
       \/ \E r \in ServiceRequests : TransformStart(t, r)
       \/ TransformRun(t)
       \/ AcquireLock(t)
       \/ BeginImmediate(t)
       \/ SelectRow(t)
       \/ ReturnAtLimit(t)
       \/ WriteRow(t)
       \/ Commit(t)
       \/ TransformFinish(t)
  \/ \E r \in PreviewRequests : PreviewTransform(r)

SpecService == InitService /\ [][NextService]_vars

\* POST /plan on either upload, for a planner with and without a client and
\* every outcome of the external service.
InitPlanEndpoint ==
  /\ QuotaInit /\ max_uses = MaxLimit
  /\ InterpIdle
  /\ \/ Constructed(DefaultSettings)
     \/ Constructed(Settings(JText(OPENAI), JText(<<"sk-openai">>), JNone))
  /\ uuid_count \in 0..MaxTokens
  /\ \E outcome \in (IF client_present THEN ServiceOutcomes ELSE {NoOutcome}) :
       oracle_call = Call("create_plan", JNone, JNone, outcome)
  /\ oracle_result = NoResult
  /\ RouterIdle

NextPlanEndpoint == \E file_id \in FileIds : GeneratePlan(file_id)

SpecPlanEndpoint == InitPlanEndpoint /\ [][NextPlanEndpoint]_vars

\* ------------------------------------------------------------ quota claims
Quiescent == \A t \in Threads : th[t].pc = "idle"

U1 == <<"u", "1">>
U1Spelled == <<" ", "U", "1", "\t">>

\* C1: once every one of the N consume calls made for a user (concurrently, in
\* any interleaving, from a stored count of 0) has returned, the stored
\* usage_count of that user is exactly min(N, max_uses).
C1_FinalCountIsMin ==
  Quiescent =>
    \A u \in RawUserIds : get_usage(u) = Min(CallsOf(u), max_uses)

C1_Witness ==
  /\ Quiescent
  /\ max_uses = 2
  /\ CallsOf(U1) = 3
  /\ get_usage(U1) = 2

\* C2: in every reachable state the stored usage_count of every user is between
\* 0 and max_uses inclusive.
C2_CountWithinLimit ==
  \A c \in DOMAIN usage :
    usage[c].usage_count >= 0 /\ usage[c].usage_count <= max_uses

C2_Witness ==
  /\ max_uses >= 1
  /\ get_usage(U1) = max_uses
  /\ \E t \in Threads : th[t].pc = "check" /\ SameUser(th[t].user, U1)
  /\ lastRead.op = "can_consume"

\* C4: the k-th consume call to return for a user returns
\* (min(k, max_uses), max_uses - min(k, max_uses)), and can_consume answers
\* false once max_uses calls have returned.
C4_KthConsumeResult ==
  /\ lastConsume.k >= 1 =>
       lastConsume.ret = << Min(lastConsume.k, max_uses),
                            max_uses - Min(lastConsume.k, max_uses) >>
  /\ \A u \in RawUserIds : DoneOf(u) >= max_uses => ~can_consume(u)

C4_Witness ==
  /\ max_uses = 2
  /\ lastConsume.k = 3
  /\ lastConsume.ret = <<2, 0>>
  /\ ~can_consume(lastConsume.user)

\* C5: a consume call that has read a count at or above the limit leaves the
\* whole table (every usage_count and updated_at, and the set of records) as
\* it is, and returns the stored count with remaining 0.
C5_NoMutationAtLimit ==
  [][ \A t \in Threads :
        ( /\ th[t].pc = "check"
          /\ th[t].usage_count >= max_uses
          /\ th'[t] # th[t] )
        => ( /\ usage' = usage
             /\ th'[t].pc = "idle"
             /\ lastConsume'.user = th[t].user
             /\ lastConsume'.ret = << get_usage(th[t].user), 0 >> ) ]_vars

C5_Witness ==
  /\ max_uses >= 1
  /\ lastConsume.k > max_uses
  /\ lastConsume.ret = <<max_uses, 0>>
  /\ lastConsume.user = U1Spelled

\* C6: every spelling of a user reads and updates one record: the count stored
\* under the cleaned identifier is the number of increments made under all the
\* spellings, no two records belong to one user, and each read operation
\* answers from that count.
C6_OneRecordPerUser ==
  /\ \A u \in RawUserIds : get_usage(u) = IncsOf(u)
  /\ \A c1, c2 \in DOMAIN usage : SameUser(c1, c2) => c1 = c2
  /\ lastRead.op = "get_usage" => lastRead.ret = lastRead.seen
  /\ lastRead.op = "get_remaining" =>
       lastRead.ret = Max(0, max_uses - lastRead.seen)
  /\ lastRead.op = "can_consume" =>
       lastRead.ret = (lastRead.seen < max_uses)

C6_Witness ==
  /\ incs[U1] = 1
  /\ incs[U1Spelled] = 1
  /\ lastRead.op = "get_usage"
  /\ lastRead.user = U1
  /\ lastRead.ret = 2


\* ----------------------------------------------------------- router claims
AcceptedOf(u) == Sum(accepted, Spellings(u))

\* C3: under any interleaving of concurrent POST /transform requests for one
\* user with limit L, no more than L requests are answered 200.
C3_AcceptedWithinLimit ==
  \A u \in RawUserIds : AcceptedOf(u) <= max_uses

\* ----------------------------------------------------------- oracle claims
OracleReturned == oracle_result # NoResult

\* A text with at least one character that is not whitespace
NonEmptyText(j) == j.kind = "text" /\ j.v # <<>> /\ Strip(j.v) = j.v

\* A clarify_id a caller can resume with: a non-empty text or a generated token
NonEmptyId(j) == NonEmptyText(j) \/ (j.kind = "uuid" /\ j.v >= 1)

SupportedOperation(operation) ==
  /\ operation.kind = "dict"
  /\ "type" \in DOMAIN operation.v
  /\ operation.v["type"].kind = "str"
  /\ operation.v["type"].v \in
       { "rename_column", "drop_columns", "fill_null", "cast_type",
         "trim_whitespace", "change_case", "derive_numeric", "filter_rows",
         "sort_rows" }

\* C7: whatever the external call does, create_plan and
\* create_plan_from_clarification return either a plan with a non-empty
\* operations list or a clarification with a non-empty question, at most four
\* choices and a non-empty clarify_id.
C7_WellFormedResult ==
  OracleReturned =>
    \/ /\ oracle_result.type = "plan"
       /\ Len(oracle_result.operations) > 0
    \/ /\ oracle_result.type = "clarify"
       /\ NonEmptyText(oracle_result.question)
       /\ Len(oracle_result.choices) <= 4
       /\ NonEmptyId(oracle_result.clarify_id)

\* The service answered type clarify with five choices and a blank clarify_id,
\* to a resume call whose own clarify_id is blank.
C7_Witness ==
  /\ OracleReturned
  /\ oracle_call.fn = "create_plan_from_clarification"
  /\ oracle_call.clarify_id = JText(<<" ">>)
  /\ oracle_call.outcome.kind = "content"
  /\ oracle_call.outcome.content.form = "json"
  /\ oracle_call.outcome.content.json.kind = "dict"
  /\ Get(oracle_call.outcome.content.json, "type") = JStr("clarify")
  /\ Get(oracle_call.outcome.content.json, "clarify_id") = JText(<<" ">>)
  /\ Get(oracle_call.outcome.content.json, "question") = JNum(7)
  /\ Len(oracle_result.choices) = 4
  /\ oracle_result.clarify_id.kind = "uuid"

\* The operations list of the plan the service sent, when it sent a plan
SentPlan ==
  /\ oracle_call.sent = 1
  /\ oracle_call.outcome.kind = "content"
  /\ oracle_call.outcome.content.form \in {"json", "wrapped"}
  /\ oracle_call.outcome.content.json.kind = "dict"
  /\ JEq(Get(oracle_call.outcome.content.json, "type"), JStr("plan"))

SentOperations ==
  LET raw_plan == Get(oracle_call.outcome.content.json, "plan")
      operations == IF raw_plan.kind = "dict" THEN Get(raw_plan, "operations")
                                              ELSE JNone
  IN IF operations.kind = "list" THEN operations.v ELSE <<>>

\* C8: a plan the oracle returns holds no operation of an unsupported type,
\* and when none of the operations the service sent is supported the oracle
\* returns a clarification, never a plan with an empty operations list.
C8_SanitizedPlan ==
  /\ oracle_result.type = "plan" =>
       /\ Len(oracle_result.operations) > 0
       /\ \A i \in 1..Len(oracle_result.operations) :
            SupportedOperation(oracle_result.operations[i])
  /\ ( /\ OracleReturned
       /\ SentPlan
       /\ \A i \in 1..Len(SentOperations) : ~SupportedOperation(SentOperations[i]) )
     => oracle_result.type = "clarify"

\* The service sent an unsupported operation followed by a supported one.
C8_Witness ==
  /\ OracleReturned
  /\ SentPlan
  /\ Len(SentOperations) = 2
  /\ SentOperations[1].kind = "dict"
  /\ JEq(Get(SentOperations[1], "type"), JStr("unsupported_op"))
  /\ SupportedOperation(SentOperations[2])
  /\ oracle_result.type = "plan"
  /\ oracle_result.operations = <<SentOperations[2]>>

\* The service answered, and its answer is neither a clarification nor a plan
\* with a supported operation.
NotActionable ==
  /\ oracle_call.sent = 1
  /\ oracle_call.outcome.kind = "content"
  /\ LET content == oracle_call.outcome.content
     IN \/ content.form \notin {"json", "wrapped"}
        \/ content.json.kind # "dict"
        \/ /\ ~JEq(Get(content.json, "type"), JStr("clarify"))
           /\ ~( /\ SentPlan
                 /\ \E i \in 1..Len(SentOperations) :
                      SupportedOperation(SentOperations[i]) )

\* The clarify_id found in the service's answer
ResponseClarifyId ==
  LET content == oracle_call.outcome.content
  IN IF content.form \in {"json", "wrapped"} /\ content.json.kind = "dict"
       THEN Get(content.json, "clarify_id")
       ELSE JNone

\* A token generated by this call
FreshToken(j) == j.kind = "uuid" /\ j.v = uuid_count /\ j.v >= 1

GenericQuestion ==
  JText(<<"La richiesta non e ancora chiara. Vuoi procedere con impostazioni consigliate?">>)

\* C9 as stated: the generic clarification carries the clarify_id found in
\* the malformed response if it is present and non-empty, and a fresh token
\* otherwise.
C9_IdFromResponse ==
  (OracleReturned /\ NotActionable) =>
    /\ oracle_result.type = "clarify"
    /\ oracle_result.question = GenericQuestion
    /\ IF NonEmptyText(ResponseClarifyId)
         THEN oracle_result.clarify_id = ResponseClarifyId
         ELSE FreshToken(oracle_result.clarify_id)

\* C9 as amended: the generic clarification carries the fixed question and the
\* trimmed clarify_id the call itself was given if that is a non-blank string,
\* and a fresh token otherwise; a clarify_id in the malformed response is not
\* read.
C9_IdFromCall ==
  (OracleReturned /\ NotActionable) =>
    /\ oracle_result.type = "clarify"
    /\ oracle_result.question = GenericQuestion
    /\ IF oracle_call.clarify_id.kind = "text" /\ Strip(oracle_call.clarify_id.v) # <<>>
         THEN oracle_result.clarify_id = JText(Strip(oracle_call.clarify_id.v))
         ELSE FreshToken(oracle_result.clarify_id)

\* The response has no type and a clarify_id of its own; the call has another.
C9_Witness ==
  /\ OracleReturned
  /\ NotActionable
  /\ oracle_call.outcome.content.json = JDict("clarify_id" :> ResponseId)
  /\ oracle_call.clarify_id = JText(<<" ", "call-id", " ">>)
  /\ oracle_result.clarify_id = JText(<<"call-id">>)

\* ------------------------------------------------------ interpreter claims
EmptyPlan == PlanOf(<<>>)

\* C10: apply_plan on a plan whose operations list is empty ends in a
\* TransformationError and returns no dataset.
C10_EmptyPlanRejected ==
  (apply_result # NotCalled /\ payload_plan = EmptyPlan)
    => (apply_result.status = "TransformationError" /\ apply_result.value = <<>>)

\* The operations list of a plan that passed validation
PlanOperations == payload_plan.v["operations"].v

Called == apply_result # NotCalled
Validated == ValidatePlan(payload_plan).status = "ok"

RECURSIVE Chained(_, _, _)
\* One call of apply_plan per operation, each on the dataset the call before
\* it returned
Chained(df, operations, i) ==
  IF i > Len(operations) THEN Returns(df)
  ELSE LET one == apply_plan(df, PlanOf(<<operations[i]>>))
       IN IF one.status # "ok" THEN one
          ELSE Chained(one.value[1], operations, i + 1)

\* C11: apply_plan runs the operations in list order, each on the dataset the
\* one before it produced, and returns the output of the last: the call ends
\* as the chain of one-operation calls does.
C11_ListOrder ==
  (Called /\ Validated) => apply_result = Chained(source_df, PlanOperations, 1)

\* Two operations whose order matters have run to the end.
C11_Witness ==
  /\ Called
  /\ Validated
  /\ Len(PlanOperations) = 2
  /\ apply_result.status = "ok"
  /\ apply_plan(source_df, PlanOf(<<PlanOperations[2], PlanOperations[1]>>))
       # apply_result

\* C12: apply_plan leaves the dataset it was given as it was, whether it
\* returns or raises, and a call that raises hands back no dataset.
C12_CallerFrameKept ==
  [][ /\ source_df' = source_df
      /\ apply_result'.status # "ok" => apply_result'.value = <<>> ]_vars

\* An operation that assigns in place changed the working dataset, and the
\* operation after it failed.
C12_Witness ==
  /\ Called
  /\ Validated
  /\ Len(PlanOperations) = 2
  /\ AssignsInPlace(PlanOperations[1].v["type"].v)
  /\ apply_plan(source_df, PlanOf(<<PlanOperations[1]>>)).status = "ok"
  /\ apply_plan(source_df, PlanOf(<<PlanOperations[1]>>)).value[1] # source_df
  /\ apply_result.status = "TransformationError"

\* No label occurs twice among the columns
UniqueColumns(df) ==
  \A i, j \in 1..Len(df.columns) : i # j => ~JEq(df.columns[i], df.columns[j])

\* Every row has one cell per column
EqualLengths(df) == \A r \in 1..Len(df.rows) : Len(df.rows[r]) = Len(df.columns)

\* The call ended in a way the model decides
Decided == Called /\ apply_result.status # "NotModelled"

\* C13: on a dataset with unique column names and a non-empty validated plan,
\* apply_plan returns a dataset with unique column names and columns of equal
\* length, or ends in a TransformationError, and in no other fault.
C13_TypedOutcome ==
  (Decided /\ Validated /\ PlanOperations # <<>> /\ UniqueColumns(source_df)) =>
    \/ /\ apply_result.status = "ok"
       /\ UniqueColumns(apply_result.value[1])
       /\ EqualLengths(apply_result.value[1])
    \/ apply_result.status = "TransformationError"

\* operations is not a list, or holds an element that is not an object or
\* whose type is not one of the nine kinds
FailsValidation(plan) ==
  LET operations == Get(plan, "operations")
  IN \/ operations.kind # "list"
     \/ \E i \in 1..Len(operations.v) :
          \/ operations.v[i].kind # "dict"
          \/ ~SupportedOperation(operations.v[i])

\* C14: a plan whose operations field is not a list, or with an element that
\* is not an object or whose type is outside the nine kinds, ends in a
\* TransformationError, wherever the element is, and nothing of it is run.
C14_ValidationError ==
  (Called /\ FailsValidation(payload_plan)) =>
    /\ apply_result.status = "TransformationError"
    /\ apply_result.value = <<>>

\* The list under key k of the operation, or no labels when it is not a list
LabelList(operation, k) ==
  IF Get(operation, k).kind = "list" THEN Get(operation, k).v ELSE <<>>

\* The labels of existing columns a well-formed operation refers to
NamedColumns(operation) ==
  LET op_type == operation.v["type"].v
  IN CASE op_type = "rename_column" -> <<Get(operation, "from")>>
       [] op_type \in {"fill_null", "cast_type", "filter_rows"} ->
            <<Get(operation, "column")>>
       [] op_type \in {"drop_columns", "trim_whitespace", "change_case"} ->
            LabelList(operation, "columns")
       [] op_type = "derive_numeric" ->
            <<Get(operation, "left_column"), Get(operation, "right_column")>>
       [] op_type = "sort_rows" -> LabelList(operation, "by")

\* The operation refers to a label that is no column of df
NamesAbsent(df, operation) ==
  \E j \in 1..Len(NamedColumns(operation)) :
    /\ ~IsNull(NamedColumns(operation)[j])
    /\ ~InColumns(df, NamedColumns(operation)[j])

\* Operation i is reached, and names a column absent from the dataset the
\* operations before it left
ReachesAbsent(df, operations, i) ==
  LET before == Chained(df, SubSeq(operations, 1, i - 1), 1)
  IN before.status = "ok" /\ NamesAbsent(before.value[1], operations[i])

\* C15: an operation naming a column absent from the dataset as the preceding
\* operations left it makes apply_plan fail with a TransformationError.
C15_MissingColumn ==
  (Decided /\ Validated
     /\ \E i \in 1..Len(PlanOperations) : ReachesAbsent(source_df, PlanOperations, i))
    => apply_result.status = "TransformationError"

\* The operation is a rename_column whose from and to are the same label
RenamesToItself(operation) ==
  /\ operation.v["type"].v = "rename_column"
  /\ IsStr(Get(operation, "from"))
  /\ JEq(Get(operation, "from"), Get(operation, "to"))

\* The dataset the last operation of the plan is run on, if it is reached
BeforeLast ==
  Chained(source_df, SubSeq(PlanOperations, 1, Len(PlanOperations) - 1), 1)

\* The plan ends with a rename of a column to itself, run on a dataset that has
\* the column under one label
LastRenamesToItself ==
  /\ Called
  /\ Validated
  /\ PlanOperations # <<>>
  /\ RenamesToItself(PlanOperations[Len(PlanOperations)])
  /\ BeforeLast.status = "ok"
  /\ IsSeries(BeforeLast.value[1], Get(PlanOperations[Len(PlanOperations)], "from"))

\* C20: rename_column with from equal to to, on a dataset that has the column,
\* returns the dataset unchanged: labels, column order, values and row order.
C20_RenameToItself == LastRenamesToItself => apply_result = BeforeLast

\* name is renamed to name on a dataset with rows and other columns.
C20_Witness ==
  /\ LastRenamesToItself
  /\ Len(BeforeLast.value[1].columns) > 1
  /\ BeforeLast.value[1].rows # <<>>
  /\ PositionOf(BeforeLast.value[1], Get(PlanOperations[Len(PlanOperations)], "from"))
       < Len(BeforeLast.value[1].columns)

\* ---------------------------------------------------------- planner claims
\* The api key the configuration holds for the provider the planner selected
SelectedKey ==
  IF planner.provider = KIMI THEN llm_settings.kimi_api_key
                             ELSE llm_settings.openai_api_key

\* C18: when the selected provider has no api key configured, create_plan and
\* create_plan_from_clarification return the generic clarification, send no
\* request, and the planner holds no client, whatever key the other provider
\* has; the same for openai and kimi.
C18_FailOpen ==
  (OracleReturned /\ ~Truthy(SelectedKey)) =>
    /\ oracle_result.type = "clarify"
    /\ oracle_result.question = GenericQuestion
    /\ oracle_call.sent = 0
    /\ planner.client = NoClient

\* kimi is selected under another spelling and has no key, openai has one, and
\* a resume call has returned.
C18_Witness ==
  /\ OracleReturned
  /\ oracle_call.fn = "create_plan_from_clarification"
  /\ llm_settings.llm_provider = JText(<<" ", "K", "i", "m", "i", " ">>)
  /\ planner.provider = KIMI
  /\ llm_settings.kimi_api_key = JNone
  /\ llm_settings.openai_api_key = JText(<<"sk-openai">>)
  /\ oracle_result.type = "clarify"

\* ----------------------------------------------------------- router claims
\* A step that is a preview: it answers as the preview endpoint and moves no
\* transformation request and no call of the limiter
PreviewStep ==
  /\ lastResponse'.endpoint = "preview"
  /\ th' = th
  /\ inflight' = inflight
  /\ requests' = requests

\* C16: POST /transform/preview, answered with success or with an error,
\* leaves the usage count get_usage returns for every user as it was.
C16_PreviewKeepsUsage ==
  [][ PreviewStep =>
        \A u \in RawUserIds :
          StoredCount(usage', CleanUserId(u)) = StoredCount(usage, CleanUserId(u)) ]_vars

\* A preview has succeeded for an upload after a transformation was charged.
C16_Witness ==
  /\ lastResponse.endpoint = "preview"
  /\ lastResponse.status_code = 200
  /\ get_usage(U1) >= 1

\* The POST /transform requests being served
InFlight == { t \in Threads : inflight[t].pc # "none" }

C17_PlanRelayed ==
  (lastResponse.endpoint = "plan" /\ OracleReturned) =>
    /\ lastResponse.status_code = 200
    /\ lastResponse.body.type = oracle_result.type
    /\ oracle_result.type = "plan" =>
         lastResponse.body.operations = oracle_result.operations
    /\ oracle_result.type = "clarify" =>
         /\ lastResponse.body.question = oracle_result.question
         /\ lastResponse.body.clarify_id = oracle_result.clarify_id

\* ------------------------------------------------ single operation claims
\* The one operation of the plan, and whether it is of this kind
TheOperation == PlanOperations[1]

OperationIs(kind) ==
  /\ Len(PlanOperations) = 1
  /\ Get(TheOperation, "type") = JStr(kind)

\* A division whose operand columns are in the dataset
Divides ==
  /\ OperationIs("derive_numeric")
  /\ Get(TheOperation, "operator") = JStr("div")
  /\ PositionsOf(source_df, Get(TheOperation, "left_column")) # {}
  /\ PositionsOf(source_df, Get(TheOperation, "right_column")) # {}

\* The operands of the division on row r, coerced to numbers
LeftOf(r) == ToNumeric(Series(source_df, Get(TheOperation, "left_column"))[r])
RightOf(r) == ToNumeric(Series(source_df, Get(TheOperation, "right_column"))[r])

\* The cell of the new column on row r of the returned dataset
DerivedCell(r) ==
  Series(apply_result.value[1], Get(TheOperation, "new_column"))[r]

\* left / right on row r, rounded where a round was asked for
IsQuotient(cell, r) ==
  \/ cell = Quotient(LeftOf(r).v, RightOf(r).v)
  \/ /\ IsNumeric(Get(TheOperation, "round"))
     /\ cell = RoundCell(Quotient(LeftOf(r).v, RightOf(r).v),
                         NumberOf(Get(TheOperation, "round")))

\* C21: derive_numeric with operator div never fails on a zero denominator:
\* the call returns, the new column holds null on every row whose right value
\* is zero or not a number, and left / right on every other row.
C21_DivNeverFails ==
  (Called /\ Divides) =>
    /\ apply_result.status = "ok"
    /\ \A r \in 1..Len(source_df.rows) :
         IF IsNull(RightOf(r)) \/ RightOf(r) = JNum(0) \/ IsNull(LeftOf(r))
           THEN IsNull(DerivedCell(r))
           ELSE IsQuotient(DerivedCell(r), r)

\* ------------------------------------------------- transformation claims
\* No request is being served and no consume call is running
RequestsQuiescent ==
  \A t \in Threads : inflight[t].pc = "none" /\ th[t].pc = "idle"

\* C22: a POST /transform request increments the user's stored usage count by
\* exactly one if and only if it is answered 200: once every request has been
\* answered, the stored count of each user is the number of that user's
\* requests answered 200.
C22_CountIsSuccesses ==
  RequestsQuiescent =>
    \A u \in RawUserIds : get_usage(u) = AcceptedOf(u)

\* ---------------------------------------------------- store failure claims
\* Thread t is inside a consume call
InConsume(t) == th[t].pc \notin {"idle", "raised"}

\* C23: if the store fails at any point inside consume, the stored usage_count
\* is unchanged: no step of a call changes the table except the one on which
\* the call returns, which, when it changes it, adds one to the count of the
\* caller and returns that count; a call that fails persists nothing.
C23_AllOrNothing ==
  [][ \A t \in Threads :
        (InConsume(t) /\ th'[t] # th[t]) =>
          \/ usage' = usage
          \/ /\ th'[t].pc = "idle"
             /\ consumeDone'[th[t].user] = consumeDone[th[t].user] + 1
             /\ StoredCount(usage', th[t].clean) = StoredCount(usage, th[t].clean) + 1
             /\ lastConsume'.ret[1] = StoredCount(usage', th[t].clean)
             /\ \A c \in DOMAIN usage : c # th[t].clean => usage'[c] = usage[c] ]_vars

\* A call has failed at the commit, after it wrote the increment, and the
\* stored count is the one it read
C23_Witness ==
  \E t \in Threads :
    /\ th[t].pc = "raised"
    /\ th[t].new_usage = 2
    /\ get_usage(th[t].user) = 1

\* ------------------------------------------------- entry point claims
Resumed == OracleReturned /\ oracle_call.fn = "create_plan_from_clarification"

\* A token that no call has generated, standing for the one create_plan draws
SomeToken == Uuid(0)

\* What create_plan returns for the response this call received
CreatePlanResult ==
  CreatePlanInternal(client_present, oracle_call.outcome, JNone, SomeToken)

\* A result with its generated token, if any, replaced by SomeToken
Masked(result) ==
  [ result EXCEPT !.clarify_id = IF @.kind = "uuid" THEN SomeToken ELSE @ ]

ClarifyWithOwnId ==
  /\ oracle_call.sent = 1
  /\ oracle_call.outcome.kind = "content"
  /\ oracle_call.outcome.content.form \in {"json", "wrapped"}
  /\ oracle_call.outcome.content.json.kind = "dict"
  /\ JEq(Get(oracle_call.outcome.content.json, "type"), JStr("clarify"))
  /\ IsStr(ResponseClarifyId)

AttemptUnusable ==
  /\ oracle_call.sent = 1
  /\ \/ oracle_call.outcome.kind = "raise"
     \/ NotActionable

\* C25: each oracle call makes at most one outbound request to the external
\* service and never retries: one call of the client, one request, and after
\* a failed or unusable attempt a clarification.
C25_SingleRequest ==
  OracleReturned =>
    /\ oracle_call.sent <= 1
    /\ oracle_call.attempts <= 1
    /\ AttemptUnusable => oracle_result.type = "clarify"

\* The external call was made and raised
CallFailed == OracleReturned /\ oracle_call.sent = 1 /\ oracle_call.outcome.kind = "raise"

\* The transport status the error carries, on itself or on its response
TransportStatus ==
  IF oracle_call.outcome.status_code # 0 THEN oracle_call.outcome.status_code
  ELSE oracle_call.outcome.response_status

\* C26: when the external call fails with a transport status of 401 or 403 the
\* oracle returns a clarification of the shape of every other fallback whose
\* question is the authentication message; every other failure, and every
\* unusable answer, yields the generic question.
C26_AuthClarification ==
  /\ CallFailed =>
       /\ oracle_result.type = "clarify"
       /\ NonEmptyText(oracle_result.question)
       /\ Len(oracle_result.choices) <= 4
       /\ NonEmptyId(oracle_result.clarify_id)
       /\ oracle_result.operations = <<>>
       /\ IF TransportStatus \in {401, 403}
            THEN /\ oracle_result.question = AUTH_CLARIFY_QUESTION
                 /\ oracle_result.choices = AUTH_CLARIFY_CHOICES
            ELSE /\ oracle_result.question = GenericQuestion
                 /\ oracle_result.choices = GENERIC_CLARIFY_CHOICES
  /\ (OracleReturned /\ NotActionable) => oracle_result.question = GenericQuestion

\* A resume call was refused with 403, carried on the error's response: the
\* authentication question comes back under the call's own clarify_id
C26_Witness ==
  /\ CallFailed
  /\ oracle_call.outcome = ServiceRaisedWithResponse(403)
  /\ oracle_call.clarify_id = JText(<<"call-id">>)
  /\ oracle_result.question = AUTH_CLARIFY_QUESTION
  /\ oracle_result.clarify_id = JText(<<"call-id">>)

\* `by` and `ascending` of the sort_rows operation, with their defaults
SortBy == IF "by" \in DOMAIN TheOperation.v THEN TheOperation.v["by"] ELSE JList(<<>>)

SortAscending ==
  IF "ascending" \in DOMAIN TheOperation.v THEN TheOperation.v["ascending"]
                                          ELSE JBool(TRUE)

\* The positions of the key columns in the dataset
SortKeys == [j \in 1..Len(SortBy.v) |-> PositionOf(source_df, SortBy.v[j])]

\* The rows returned are those of `rows` taken in the order p, an order that
\* puts no row after one it sorts before and keeps rows with equal keys in
\* their input order
StablySorted(rows, returned, keys, ascending) ==
  /\ Len(returned) = Len(rows)
  /\ \E p \in [1..Len(rows) -> 1..Len(rows)] :
       /\ \A i, j \in 1..Len(rows) : i # j => p[i] # p[j]
       /\ \A i \in 1..Len(rows) : returned[i] = rows[p[i]]
       /\ \A i, j \in 1..Len(rows) :
            i < j => /\ ~RowBefore(returned[j], returned[i], keys, 1, ascending)
                     /\ (~RowBefore(returned[i], returned[j], keys, 1, ascending)
                           => p[i] < p[j])

\* C27: sort_rows fails when `by` is empty or `ascending` is not a boolean;
\* otherwise, the key columns being in the dataset, it returns the same rows
\* ordered by the key columns in the given direction, rows with equal keys in
\* their input order.
C27_StableSort ==
  (Called /\ OperationIs("sort_rows")) =>
    IF SortBy.kind # "list" \/ SortBy.v = <<>> \/ SortAscending.kind # "bool"
      THEN apply_result.status = "TransformationError"
    ELSE IF \E j \in 1..Len(SortBy.v) : PositionsOf(source_df, SortBy.v[j]) = {}
      THEN apply_result.status = "TransformationError"
    ELSE /\ apply_result.status = "ok"
         /\ apply_result.value[1].columns = source_df.columns
         /\ StablySorted(source_df.rows, apply_result.value[1].rows,
                         SortKeys, SortAscending.v)

\* The fields of the filter_rows operation
FilterColumn == Get(TheOperation, "column")
FilterComparator == Get(TheOperation, "comparator").v
FilterValue == Get(TheOperation, "value")

\* Whether a cell satisfies the comparator: eq and neq on the raw value, the
\* ordering comparators on the cell coerced to a number, which a null or
\* non-numeric cell never satisfies
Satisfies(cell, comparator, value) ==
  CASE comparator = "eq" -> CellEq(cell, value)
    [] comparator = "neq" -> ~CellEq(cell, value)
    [] OTHER ->
         /\ ~IsNull(ToNumeric(cell))
         /\ IsNumeric(value)
         /\ CASE comparator = "gt" -> ToNumeric(cell).v > NumberOf(value)
              [] comparator = "gte" -> ToNumeric(cell).v >= NumberOf(value)
              [] comparator = "lt" -> ToNumeric(cell).v < NumberOf(value)
              [] comparator = "lte" -> ToNumeric(cell).v <= NumberOf(value)

\* C28: filter_rows on a column of the dataset keeps exactly the rows that
\* satisfy the comparator, in their input order: eq and neq compare the raw
\* values, gt/gte/lt/lte the column coerced to numeric, which excludes every
\* row whose value is null or not numeric.
C28_FilterKeeps ==
  (Called /\ OperationIs("filter_rows")
     /\ PositionsOf(source_df, FilterColumn) # {}) =>
    /\ apply_result.status = "ok"
    /\ apply_result.value[1].columns = source_df.columns
    /\ apply_result.value[1].rows =
         SelectPositions(source_df.rows,
           { r \in 1..Len(source_df.rows) :
               Satisfies(Series(source_df, FilterColumn)[r],
                         FilterComparator, FilterValue) }, 1)

\* The supported operations among those the service sent, in the order sent
RetainedOperations == SelectSeq(SentOperations, SupportedOperation)

\* C29: every plan the oracle returns passes _validate_plan and the transform
\* endpoint's check for a non-empty operations list, and its operations are
\* the supported operations the service sent, in the same relative order and
\* with the same fields.
C29_PlanAccepted ==
  (OracleReturned /\ oracle_result.type = "plan") =>
    /\ SentPlan
    /\ ValidatePlan(PlanOf(oracle_result.operations)).status = "ok"
    /\ Len(oracle_result.operations) > 0
    /\ oracle_result.operations = RetainedOperations

\* The service sent two supported operations of different types, and the
\* oracle returned a plan.
C29_Witness ==
  /\ OracleReturned
  /\ SentPlan
  /\ Len(SentOperations) = 2
  /\ SupportedOperation(SentOperations[1])
  /\ SupportedOperation(SentOperations[2])
  /\ SentOperations[1] # SentOperations[2]
  /\ oracle_result.type = "plan"
  /\ Len(oracle_result.operations) = 2

\* ------------------------------------------------------ quota frame claim
\* C30: consume is the only operation that changes the table: a step that
\* changes it is the commit of a consume call, which adds one to the count of
\* that call's user and leaves every other record as it is; a read operation
\* leaves the table as it is; no record disappears and no count decreases; and
\* every record belongs to a user for whom a consume has incremented.
C30_OnlyConsumeMutates ==
  [][ /\ (usage' # usage) =>
           \E t \in Threads :
             /\ th[t].pc = "commit"
             /\ th'[t].pc = "idle"
             /\ incs'[th[t].user] = incs[th[t].user] + 1
             /\ DOMAIN usage' = DOMAIN usage \cup {th[t].clean}
             /\ StoredCount(usage', th[t].clean) =
                  StoredCount(usage, th[t].clean) + 1
             /\ \A c \in DOMAIN usage : c # th[t].clean => usage'[c] = usage[c]
      /\ (lastRead' # lastRead) => usage' = usage
      /\ \A c \in DOMAIN usage :
           /\ c \in DOMAIN usage'
           /\ usage'[c].usage_count >= usage[c].usage_count
      /\ \A c \in DOMAIN usage' :
           /\ usage'[c].usage_count >= 1
           /\ \E u \in RawUserIds : CleanUserId(u) = c /\ incs'[u] >= 1 ]_vars

\* One user's record has been updated while another user has a record, and a
\* later read for that other user returned its unchanged count.
C30_Witness ==
  /\ StoredCount(usage, CleanUserId(U1)) = 2
  /\ StoredCount(usage, <<"v", "2">>) = 1
  /\ usage[<<"v", "2">>].updated_at < usage[CleanUserId(U1)].updated_at
  /\ lastRead.op = "get_usage"
  /\ lastRead.user = <<"v", "2">>
  /\ lastRead.ret = 1

====
